---- MODULE Spec2Model ----
(***************************************************************************)
(* A model of one udtSocket of go-udt (src/udt/udtsocket.go, the second    *)
(* definition of the type, lines 374-1156) together with the goroutines    *)
(* that touch it: the multiplexer read loop (readPacket/readHandshake),    *)
(* the connection-management task (goManageConnection/shutdown), the       *)
(* dialer blocked in startConnect/startRendezvous and the callers of       *)
(* Close, Write and Read.                                                  *)
(*                                                                         *)
(* sockState is written by the read loop and by the management task with   *)
(* no lock, so a handler is split where another goroutine can observe or   *)
(* overtake it: after the read of sockState that selects a branch, and     *)
(* after connectWait.Done().                                               *)
(***************************************************************************)
EXTENDS Integers, Sequences, FiniteSets, TLC

\* ------------------------------------------------------------- bounds
MaxHandshakes == 2      \* handshake datagrams the read loop dispatches to the socket
MaxShutdownPkts == 1    \* Shutdown datagrams the read loop dispatches to the socket
MaxProcShutdowns == 1   \* shutdown requests raised by the sender/receiver engines
MaxCloseCalls == 2      \* calls of Close()
MaxWrites == 2          \* calls of Write()
MessageOutCap == 1      \* modelled capacity of messageOut (256 in newSocket)
MessageInCap == 2       \* modelled capacity of messageIn (256 in newSocket)
MaxBytes == 4           \* bytes the receive engine delivers
MaxMsgLen == 2          \* longest inbound message
MaxBufLen == 3          \* longest buffer passed to Read
MaxReads == 3           \* calls of Read()
MaxSetDeadlines == 2    \* calls of SetDeadline/SetReadDeadline/SetWriteDeadline
MaxMultiplexers == 2    \* multiplexers created for the one local address
MaxGoroutines == 2      \* goroutines that dial or listen on the local address
MaxDatagrams == 6       \* datagrams the read loop reads from the endpoint
RecvEventCap == 2       \* modelled capacity of recvEvent (256 in newSocket)
SendEventCap == 1       \* modelled capacity of sendEvent (256 in newSocket)
MaxHeapLen == 3         \* packets held by a dataPacketHeap
MaxMtu == 3             \* largest maximum packet size, of the multiplexer, the configuration or a peer
MaxSockId == 2          \* socket ids 0..MaxSockId in the read loop's routing
MaxRv == 2              \* sockets in m.rvSockets
MaxRouted == 3          \* packets routed by the read loop
SentModulus == 3        \* the handshakes sent are counted modulo this number
MaxRtt == 16            \* largest round-trip sample and estimate, in microseconds
MaxSeq == 7             \* largest packet sequence number (2^31 - 1 in the protocol)

\* ---------------------------------------------------------- constants
ShutdownEventCap == 5   \* make(chan shutdownMessage, 5)
ProtocolVersion == 4    \* udtVer: 4 in newSocket

\* sockState
NonTerminal == {"Init", "Rendezvous", "Connecting", "Connected"}
Terminal == {"Closed", "Refused", "Corrupted", "Timeout"}
SockStates == NonTerminal \cup Terminal

\* packet.HandshakeReqType
ReqTypes == {"HsRequest", "HsResponse", "HsRendezvous", "HsResponse2", "HsRefused"}

OwnSockID == 1
PeerSockIDs == {2, 3}
OwnInitSeq == 1
InitSeqs == {1, 2}
Versions == {4, 5}
SockTypes == {"STREAM", "DGRAM"}
Addrs == {"raddr", "other"}

\* the two deadlines of a socket: readDeadline and writeDeadline
Deadlines == {"read", "write"}

\* the time passed to SetDeadline: the zero time, a time before now, a time after now
DeadlineTimes == {"zero", "past", "future"}

\* the packets readPacket tells apart, handshakes aside
PacketKinds == {"Data", "Ack", "Shutdown", "UserDefControl"}

\* the multiplexers that can exist, and the goroutines that use them
Multiplexers == 1..MaxMultiplexers
Goroutines == 1..MaxGoroutines

\* the fields of packet.HandshakePacket that readHandshake reads
HandshakePacketsWith(sizes, cookies) ==
  [ReqType : ReqTypes, UdtVer : Versions, SockType : SockTypes,
   InitPktSeq : InitSeqs, SockID : PeerSockIDs, MaxPktSize : sizes, SynCookie : cookies]

\* maximum packet sizes, 0 standing for "not set" in the configuration
PktSizes == 0..MaxMtu

SynCookies == {0, 9}

\* the handshakes of peers whose maximum packet size is the largest one and
\* that set no cookie
HandshakePackets == HandshakePacketsWith({MaxMtu}, {0})

\* socket ids as goRead sees them; 0 is the destination of a first handshake
SockIds == 0..MaxSockId

\* what goRead reads of a packet: p.SocketID(), whether it is a
\* *packet.HandshakePacket, and the sender's address
RoutedPackets == [dest : SockIds, hs : BOOLEAN, from : Addrs]

\* rtPkt before the first packet
NoRouted == [dest |-> 0, hs |-> FALSE, from |-> "none"]

\* the three tasks newMultiplexer starts, lines 113-115
Tasks == {"goReceiveTick", "goRead", "goWrite"}

\* width of the socket id counter (uint32 in the source, scaled)
SidBits == 2
SidModulus == 2 ^ SidBits
Sids == 0 .. (SidModulus - 1)
\* sidOf of a goroutine without socket: no value of the counter
NoSid == SidModulus

\* capacity of pktOut (100 in the source, scaled)
PktOutCap == 1

\* lastSent before anything is sent
NoPacket ==
  [ReqType |-> "none", UdtVer |-> 0, SockType |-> "STREAM", InitPktSeq |-> 0, SockID |-> 0,
   MaxPktSize |-> 0, SynCookie |-> 0, dest |-> 0]

VARIABLES
  mode,            \* who drives the socket: "server" (isServer), "client" or "rendezvous"
  sockState, udtVer, isDatagram, farSockID, initPktSeq,
  connectWait,     \* TRUE while s.connectWait is not nil
  wgCount,         \* the counter of the WaitGroup the dialer waits on
  launched,        \* number of launchProcessors() calls
  connTimeout, connRetry, lingerTimer,   \* "nil", "armed" (will fire) or "spent" (fired and received)
  shutdownEvent,   \* queue of shutdownMessage
  sockShutdown, sockClosed,              \* TRUE once the channel is closed
  messageIn,       \* queue of inbound messages; NilSlice is what shutdown() pushes
  messageOut,      \* number of queued outbound messages
  messageOutClosed,
  registered,      \* the socket is in multiplexer.sockets
  inRendezvous,    \* the socket is in multiplexer.rvSockets
  rhPc, rhCase,    \* read loop: position in readHandshake, branch of its switch
  mgPc, sdArg,     \* management task: position, arguments of the running shutdown()
  dlPc, dlErr,     \* dialer: position in startConnect/startRendezvous, its result
  wrPc, wrState, wrErr, wrCalls,         \* caller of Write
  clStarted, clClosing, clWaiting, clDone,  \* callers of Close, counted by position
  senderDone,      \* the send engine has seen messageOut closed
  hsBudget, sdBudget, procBudget,
  rvSeen,          \* a compatible HsRendezvous reached the socket while in Rendezvous
  panic,           \* "none", or the run-time panic that ended the process
  currPartialRead, \* stream mode: the unread rest of a message, or NilSlice
  rdPc,            \* caller of Read: "idle", "dgram", "stream" or "done"
  rdConnErr,       \* connErr, taken from connectionError() on entry
  rdLen,           \* len(p)
  rdOut,           \* the bytes copied into p so far (n = Len(rdOut))
  rdErr, rdCalls,
  delivered,       \* bytes the receive engine has queued on messageIn, numbered 1, 2, ...
  msgsDelivered, msgsRead,
  readLog,         \* the bytes the Read calls have returned, in order
  deadline,        \* readDeadline/writeDeadline by "read"/"write": "nil", or "set" (a *time.Timer)
  deadlineC,       \* the timer behind it: "none", "armed", "fired" (a value waits in C) or "empty"
  deadlinePassed,  \* readDeadlinePassed/writeDeadlinePassed
  observed,        \* a Read/Write has received the timer's value since the last setDeadline
  sdlPc, sdlQueue, sdlDl, sdlCalls,  \* caller of SetDeadline: position, timers still to set, argument
  multiplexers,    \* the package-level registry, for the one key: 0, or the multiplexer stored
  conn,            \* by multiplexer: "none" (not created), "open", or "nil" (closed and cleared)
  listenSock,      \* by multiplexer: 0 (nil), or the goroutine whose listener it is
  sockets,         \* by multiplexer: the sockets stored, named by the goroutine that made them
  rvSockets,       \* by multiplexer: the sockets in rendezvous mode
  goPc, goM,       \* by goroutine: its position, and the multiplexer it holds (0: none)
  rlPc,            \* read loop: "read" (at conn.ReadFrom), or the channel readPacket is sending on
  rlPkt,           \* the kind of the packet readPacket is dispatching
  recvEvent, sendEvent,   \* number of queued events
  dgBudget,
  dpHeap,          \* a dataPacketHeap: the Seq of the packet at each index (index 0 is dpHeap[1])
  dpOp, dpArg,     \* the last operation applied to it, and its argument
  dpBefore,        \* the heap before that operation
  dpRet,           \* what the operation returned
  pidHeap,         \* a packetIDHeap: the Seq of the id at each index (index 0 is pidHeap[1])
  pidOp,           \* the last operation applied to it
  pidGE, pidLE,    \* the arguments greaterEqual and lessEqual of the last Min
  pidRet,          \* how that Min ended, and what it returned
  rtt, rttVar,     \* estimated round-trip time and its variance
  rttSample,       \* the argument of the last applyRTT
  rttPrev, rttVarPrev,   \* rtt and rttVar before the last applyRTT
  rttCalled,       \* applyRTT has been called
  mtu,             \* the negotiated maximum packet size
  muxMtu,          \* m.mtu of the socket's multiplexer
  cfgMaxPacketSize,  \* Config.MaxPacketSize, 0 when not set
  sent,            \* number of handshakes passed to m.sendPacket, modulo SentModulus
  lastSent,        \* the last of them, with its destination socket id
  mgCase,          \* management task: the sockState read by the switch of the retry case
  rtSockets,       \* routing: the ids in m.sockets
  rtRv,            \* routing: m.rvSockets, each socket by its peer address
  rtListen,        \* routing: m.listenSock != nil
  rtMutex,         \* routing: m.servSockMutex is locked
  rtPc,            \* routing: goRead is at "read" (conn.ReadFrom) or at "Lock"
  rtPkt,           \* routing: the packet goRead read last
  rtReached,       \* routing: the receivers whose readHandshake/readPacket it was passed to, in order
  rtBudget,        \* routing: packets still to arrive
  tkConn,          \* tasks: m.conn is "none" (no multiplexer yet), "open", "closed" or "nil"
  tkPktOut,        \* tasks: m.pktOut is "open", "closed" (closed, field still set) or "nil"
  tkQueued,        \* tasks: number of packets buffered in the pktOut channel
  tkShutdown,      \* tasks: m.shutdown is "open", "closed" or "nil"
  tkTeardown,      \* tasks: number of statements of lines 234-240 that have run
  tkPc,            \* tasks: position of goRead, goWrite, goReceiveTick
  tkChan,          \* tasks: what goWrite and goReceiveTick captured: "none", "chan" or "nil"
  tkUsed,          \* tasks: the uses of a closed endpoint or of a nil queue so far
  nextSid,         \* m.nextSid, a counter of SidBits bits
  sidPc,           \* by goroutine: "idle", "Store" (newSocket has its sid) or "open"
  sidOf,           \* by goroutine: the sockID of its socket, or NoSid
  sidSockets       \* m.sockets: by socket id, the goroutine whose socket is stored, or 0

sockVars == <<mode, sockState, udtVer, isDatagram, farSockID, initPktSeq, connectWait, wgCount, launched>>
timerVars == <<connTimeout, connRetry, lingerTimer>>
chanVars == <<shutdownEvent, sockShutdown, sockClosed, messageIn, messageOut, messageOutClosed>>
muxVars == <<registered, inRendezvous>>
rhVars == <<rhPc, rhCase>>
mgVars == <<mgPc, sdArg>>
dlVars == <<dlPc, dlErr>>
wrVars == <<wrPc, wrState, wrErr, wrCalls>>
clVars == <<clStarted, clClosing, clWaiting, clDone>>
envVars == <<senderDone, hsBudget, sdBudget, procBudget, rvSeen, panic>>

ioVars == <<currPartialRead, rdPc, rdConnErr, rdLen, rdOut, rdErr, rdCalls,
           delivered, msgsDelivered, msgsRead, readLog>>

dlnVars == <<deadline, deadlineC, deadlinePassed, observed, sdlPc, sdlQueue, sdlDl, sdlCalls>>

mplexVars == <<multiplexers, conn, listenSock, sockets, rvSockets, goPc, goM>>

rloopVars == <<rlPc, rlPkt, recvEvent, sendEvent, dgBudget>>

heapVars == <<dpHeap, dpOp, dpArg, dpBefore, dpRet>>

pidVars == <<pidHeap, pidOp, pidGE, pidLE, pidRet>>

rttVars == <<rtt, rttVar, rttSample, rttPrev, rttVarPrev, rttCalled>>

mtuVars == <<mtu, muxMtu, cfgMaxPacketSize>>

sendVars == <<sent, lastSent, mgCase>>

routeVars == <<rtSockets, rtRv, rtListen, rtMutex, rtPc, rtPkt, rtReached, rtBudget>>
taskVars == <<tkConn, tkPktOut, tkQueued, tkShutdown, tkTeardown, tkPc, tkChan, tkUsed>>
sidVars == <<nextSid, sidPc, sidOf, sidSockets>>

vars == <<sockVars, timerVars, chanVars, muxVars, rhVars, mgVars, dlVars, wrVars, clVars, envVars, ioVars, dlnVars,
          mplexVars, rloopVars, heapVars, pidVars, rttVars, mtuVars, sendVars, routeVars, sidVars, taskVars>>

\* a nil *packet.DataPacket
NilPacket == -1

\* what an operation of the heap hands back: the packet (by Seq) and index of
\* Find and UpperBound, the bool of Remove; returns is FALSE when the call
\* never returns
NoReturn == [returns |-> FALSE, pkt |-> NilPacket, idx |-> -1, ok |-> FALSE]

\* Go's nil byte slice: it has no bytes, and every queued message has at least one
NilSlice == <<>>

NoArg == [sockState |-> "Init", permitLinger |-> FALSE]

Running == panic = "none"

\* ------------------------------------------------------------ helpers

\* udtSocket.isOpen
isOpen(st) == st \notin {"Closed", "Refused", "Corrupted", "Timeout"}

\* udtSocket.connectionError
connectionError(st) ==
  CASE st = "Refused" -> "Connection refused by remote host"
    [] st = "Corrupted" -> "Connection closed due to protocol error"
    [] st = "Closed" -> "Connection closed"
    [] st = "Timeout" -> "Connection timed out"
    [] OTHER -> "nil"

\* udtSocket.checkValidHandshake: looks at the socket's own version, not the packet's
checkValidHandshake(p) == udtVer = ProtocolVersion

SockTypeMatches(p) == isDatagram = (p.SockType = "DGRAM")

\* the socket has been returned to the application, which may call Close and Write
Handed ==
  \/ mode = "server" /\ launched > 0
  \/ mode # "server" /\ dlPc = "done"

\* the timer's channel is one the select can receive from: lines 510-513, 642-645
DeadlineReady(w) == deadline[w] = "set" /\ deadlineC[w] = "fired"

\* --------------------------------------------------------------- Init
\* newSocket, lines 774-817, for a multiplexer with MTU mMtu and a
\* configuration with MaxPacketSize maxPacketSize
InitConfig(mMtu, maxPacketSize) ==
  /\ mode \in {"server", "client", "rendezvous"}
  /\ sockState = "Init"
  /\ udtVer = ProtocolVersion
  /\ isDatagram \in BOOLEAN
  /\ farSockID = 0
  /\ initPktSeq = OwnInitSeq
  /\ connectWait = FALSE
  /\ wgCount = 0
  /\ launched = 0
  /\ connTimeout = "nil" /\ connRetry = "nil" /\ lingerTimer = "nil"
  /\ shutdownEvent = <<>>
  /\ sockShutdown = FALSE /\ sockClosed = FALSE
  /\ messageIn = <<>>
  /\ messageOut = 0
  /\ messageOutClosed = FALSE
  /\ registered = TRUE
  /\ inRendezvous = FALSE
  /\ rhPc = "idle" /\ rhCase = "none"
  /\ mgPc = "none" /\ sdArg = NoArg
  /\ dlPc = "idle" /\ dlErr = "nil"
  /\ wrPc = "idle" /\ wrState = "Init" /\ wrErr = "nil" /\ wrCalls = 0
  /\ clStarted = 0 /\ clClosing = 0 /\ clWaiting = 0 /\ clDone = 0
  /\ senderDone = FALSE
  /\ hsBudget = MaxHandshakes /\ sdBudget = MaxShutdownPkts /\ procBudget = MaxProcShutdowns
  /\ rvSeen = FALSE
  /\ panic = "none"
  /\ currPartialRead = NilSlice
  /\ rdPc = "idle" /\ rdConnErr = "nil" /\ rdLen = 0 /\ rdOut = <<>> /\ rdErr = "nil" /\ rdCalls = 0
  /\ delivered = 0 /\ msgsDelivered = 0 /\ msgsRead = 0
  /\ readLog = <<>>
  /\ deadline = [w \in Deadlines |-> "nil"]
  /\ deadlineC = [w \in Deadlines |-> "none"]
  /\ deadlinePassed = [w \in Deadlines |-> FALSE]
  /\ observed = [w \in Deadlines |-> FALSE]
  /\ sdlPc = "idle" /\ sdlQueue = <<>> /\ sdlDl = "zero" /\ sdlCalls = 0
  /\ multiplexers = 0
  /\ conn = [m \in Multiplexers |-> "none"]
  /\ listenSock = [m \in Multiplexers |-> 0]
  /\ sockets = [m \in Multiplexers |-> {}]
  /\ rvSockets = [m \in Multiplexers |-> {}]
  /\ goPc = [g \in Goroutines |-> "idle"]
  /\ goM = [g \in Goroutines |-> 0]
  /\ rlPc = "read" /\ rlPkt = "none"
  /\ recvEvent = 0 /\ sendEvent = 0
  /\ dgBudget = MaxDatagrams
  /\ dpHeap = <<>> /\ dpBefore = <<>>
  /\ dpOp = "none" /\ dpArg = 0
  /\ dpRet = NoReturn
  /\ pidHeap = <<>> /\ pidOp = "none" /\ pidGE = 0 /\ pidLE = 0
  /\ pidRet = [ends |-> "return", pkt |-> 0, idx |-> -1]
  /\ rtt = 0 /\ rttVar = 0
  /\ rttSample = 0 /\ rttPrev = 0 /\ rttVarPrev = 0 /\ rttCalled = FALSE
  /\ muxMtu = mMtu /\ cfgMaxPacketSize = maxPacketSize
  /\ mtu = IF maxPacketSize > 0 /\ maxPacketSize < mMtu THEN maxPacketSize ELSE mMtu
  /\ sent = 0 /\ lastSent = NoPacket /\ mgCase = "none"
  /\ rtSockets = {} /\ rtRv = <<>> /\ rtListen = FALSE /\ rtMutex = FALSE
  /\ rtPc = "read" /\ rtPkt = NoRouted /\ rtReached = <<>> /\ rtBudget = MaxRouted
  /\ tkConn = "none" /\ tkPktOut = "nil" /\ tkQueued = 0 /\ tkShutdown = "nil" /\ tkTeardown = 0
  /\ tkPc = [t \in Tasks |-> "none"] /\ tkChan = [t \in Tasks |-> "none"] /\ tkUsed = {}
  /\ nextSid = 0 /\ sidPc = [g \in Goroutines |-> "idle"]
  /\ sidOf = [g \in Goroutines |-> NoSid] /\ sidSockets = [i \in Sids |-> 0]

\* a socket with the default configuration on a multiplexer with the largest MTU
Init == InitConfig(MaxMtu, 0)


\* ------------------------------------------------------- sendHandshake

\* the handshake built without the cookie of the packet it answers
sendHandshake_NoCookie(synCookie, reqType) ==
  /\ lastSent' = [ReqType |-> reqType,
                  UdtVer |-> udtVer',
                  SockType |-> IF isDatagram' THEN "DGRAM" ELSE "STREAM",
                  InitPktSeq |-> initPktSeq',
                  SockID |-> OwnSockID,
                  MaxPktSize |-> mtu',
                  SynCookie |-> 0,
                  dest |-> farSockID']
  /\ sent' = (sent + 1) % SentModulus

\* sendHandshake, lines 898-921, called after the fields of the socket have
\* been assigned: the packet is built from their new values and passed to
\* m.sendPacket for farSockID
sendHandshake(synCookie, reqType) ==
  /\ lastSent' = [ReqType |-> reqType,
                  UdtVer |-> udtVer',
                  SockType |-> IF isDatagram' THEN "DGRAM" ELSE "STREAM",
                  InitPktSeq |-> initPktSeq',
                  SockID |-> OwnSockID,
                  MaxPktSize |-> mtu',
                  SynCookie |-> synCookie,
                  dest |-> farSockID']
  /\ sent' = (sent + 1) % SentModulus

\* no handshake is sent
NoHandshake == UNCHANGED <<sent, lastSent>>

\* the peer's size assigned whether smaller or not
LowerMtu_Assign(p) == mtu' = p.MaxPktSize

\* if s.mtu.get() > p.MaxPktSize { s.mtu.set(p.MaxPktSize) }: lines 946-948, 984-986, 1020-1022
LowerMtu(p) == mtu' = IF mtu > p.MaxPktSize THEN p.MaxPktSize ELSE mtu

\* ------------------------------------------------- dialer (startConnect)

\* startConnect up to connectWait.Wait(): lines 827-837
StartConnect ==
  /\ Running /\ mode = "client" /\ dlPc = "idle"
  /\ connectWait' = TRUE /\ wgCount' = 1
  /\ sockState' = "Connecting"
  /\ connTimeout' = "armed" /\ connRetry' = "armed"
  /\ mgPc' = "select"
  /\ dlPc' = "wait"
  /\ UNCHANGED <<sidVars, taskVars, routeVars, mgCase, mtuVars, rttVars, pidVars, heapVars, rloopVars, mplexVars, dlnVars, ioVars, mode, udtVer, isDatagram, farSockID, initPktSeq, launched, lingerTimer,
                 chanVars, muxVars, rhVars, sdArg, dlErr, wrVars, clVars, envVars>>
  /\ sendHandshake(0, "HsRequest")

\* startRendezvous up to connectWait.Wait(): lines 844-855
StartRendezvous ==
  /\ Running /\ mode = "rendezvous" /\ dlPc = "idle"
  /\ connectWait' = TRUE /\ wgCount' = 1
  /\ sockState' = "Rendezvous"
  /\ connTimeout' = "armed" /\ connRetry' = "armed"
  /\ mgPc' = "select"
  /\ inRendezvous' = TRUE
  /\ dlPc' = "wait"
  /\ UNCHANGED <<sidVars, taskVars, routeVars, mgCase, mtuVars, rttVars, pidVars, heapVars, rloopVars, mplexVars, dlnVars, ioVars, mode, udtVer, isDatagram, farSockID, initPktSeq, launched, lingerTimer,
                 chanVars, registered, rhVars, sdArg, dlErr, wrVars, clVars, envVars>>
  /\ sendHandshake(0, "HsRendezvous")

\* connectWait.Wait() returns once the counter is zero
DialerWake ==
  /\ Running /\ dlPc = "wait" /\ wgCount = 0
  /\ dlPc' = "woken"
  /\ UNCHANGED <<sidVars, taskVars, routeVars, sendVars, mtuVars, rttVars, pidVars, heapVars, rloopVars, mplexVars, dlnVars, ioVars, sockVars, timerVars, chanVars, muxVars, rhVars, mgVars, dlErr, wrVars, clVars, envVars>>

\* return s.connectionError()
DialerReturn ==
  /\ Running /\ dlPc = "woken"
  /\ dlErr' = connectionError(sockState)
  /\ dlPc' = "done"
  /\ UNCHANGED <<sidVars, taskVars, routeVars, sendVars, mtuVars, rttVars, pidVars, heapVars, rloopVars, mplexVars, dlnVars, ioVars, sockVars, timerVars, chanVars, muxVars, rhVars, mgVars, wrVars, clVars, envVars>>

\* ------------------------------------ read loop (readPacket, readHandshake)

\* A handshake datagram reaches the socket.  The listener hands a server socket
\* its first handshake while it is in Init; a dialled socket is offered
\* handshakes once startConnect/startRendezvous has begun.  The address check
\* and the evaluation of "switch s.sockState" happen here.
ReadHandshakeSwitch(from) ==
  /\ Running /\ rhPc = "idle" /\ hsBudget > 0
  /\ mode = "server" \/ dlPc # "idle"
  /\ registered \/ inRendezvous
  /\ hsBudget' = hsBudget - 1
  /\ IF from = "raddr" /\ sockState \in NonTerminal
       THEN rhPc' = "body" /\ rhCase' = sockState
       ELSE UNCHANGED rhVars
  /\ UNCHANGED <<sidVars, taskVars, routeVars, sendVars, mtuVars, rttVars, pidVars, heapVars, rloopVars, mplexVars, dlnVars, ioVars, sockVars, timerVars, chanVars, muxVars, mgVars, dlVars, wrVars, clVars,
                 senderDone, sdBudget, procBudget, rvSeen, panic>>

\* line 978 (and 966): the conditions under which a Connecting socket takes a handshake
AcceptsInConnecting_NoSeqCheck(p) ==
  /\ checkValidHandshake(p)
  /\ SockTypeMatches(p)

AcceptsInConnecting(p) ==
  /\ checkValidHandshake(p)
  /\ p.InitPktSeq = initPktSeq
  /\ SockTypeMatches(p)

\* line 1004-1010: the conditions under which a Rendezvous socket takes a handshake
AcceptsInRendezvous(p) ==
  /\ p.ReqType = "HsRendezvous"
  /\ farSockID # 0
  /\ checkValidHandshake(p)
  /\ SockTypeMatches(p)

\* if s.connectWait != nil { s.connectWait.Done(); s.connectWait = nil }
ReleaseDialer ==
  IF connectWait
    THEN /\ connectWait' = FALSE
         /\ IF wgCount > 0
              THEN wgCount' = wgCount - 1 /\ panic' = panic
              ELSE wgCount' = wgCount /\ panic' = "sync: negative WaitGroup counter"
    ELSE UNCHANGED <<connectWait, wgCount, panic>>

\* the Init case without the call of launchProcessors
ReadHandshakeInit_NoLaunch(p) ==
  /\ initPktSeq' = p.InitPktSeq
  /\ udtVer' = p.UdtVer
  /\ farSockID' = p.SockID
  /\ isDatagram' = (p.SockType = "DGRAM")
  /\ sockState' = "Connected"
  /\ connTimeout' = "nil" /\ connRetry' = "nil"
  /\ mgPc' = "select"
  /\ LowerMtu(p)
  /\ UNCHANGED <<mode, connectWait, wgCount, lingerTimer, inRendezvous, panic, launched>>
  /\ sendHandshake(p.SynCookie, "HsResponse")

\* case sockStateInit
ReadHandshakeInit(p) ==
  /\ initPktSeq' = p.InitPktSeq
  /\ udtVer' = p.UdtVer
  /\ farSockID' = p.SockID
  /\ isDatagram' = (p.SockType = "DGRAM")
  /\ launched' = launched + 1
  /\ sockState' = "Connected"
  /\ connTimeout' = "nil" /\ connRetry' = "nil"
  /\ mgPc' = "select"
  /\ LowerMtu(p)
  /\ UNCHANGED <<mode, connectWait, wgCount, lingerTimer, inRendezvous, panic>>
  /\ sendHandshake(p.SynCookie, "HsResponse")

\* case sockStateConnecting
ReadHandshakeConnecting(p) ==
  IF p.ReqType = "HsRefused"
    THEN /\ sockState' = "Refused"
         /\ UNCHANGED <<mode, udtVer, isDatagram, farSockID, initPktSeq, connectWait, wgCount,
                        launched, timerVars, inRendezvous, mgPc, panic, mtu>>
         /\ NoHandshake
    ELSE IF p.ReqType = "HsRequest"
      THEN /\ UNCHANGED <<sockVars, timerVars, inRendezvous, mgPc, panic, mtu>>
           /\ IF AcceptsInConnecting(p)
                THEN sendHandshake(p.SynCookie, "HsResponse")
                ELSE NoHandshake
      ELSE IF p.ReqType = "HsResponse" /\ AcceptsInConnecting(p)
        THEN /\ farSockID' = p.SockID
             /\ LowerMtu(p)
             /\ launched' = launched + 1
             /\ connRetry' = "nil"
             /\ sockState' = "Connected"
             /\ connTimeout' = "nil"
             /\ ReleaseDialer
             /\ UNCHANGED <<mode, udtVer, isDatagram, initPktSeq, lingerTimer, inRendezvous, mgPc>>
             /\ NoHandshake
        ELSE /\ UNCHANGED <<sockVars, timerVars, inRendezvous, mgPc, panic, mtu>>
             /\ NoHandshake

\* case sockStateRendezvous
ReadHandshakeRendezvous(p) ==
  IF p.ReqType = "HsRefused"
    THEN /\ sockState' = "Refused"
         /\ UNCHANGED <<mode, udtVer, isDatagram, farSockID, initPktSeq, connectWait, wgCount,
                        launched, timerVars, inRendezvous, mgPc, panic, mtu>>
         /\ NoHandshake
    ELSE IF AcceptsInRendezvous(p)
      THEN /\ farSockID' = p.SockID
           /\ inRendezvous' = FALSE
           /\ LowerMtu(p)
           /\ launched' = launched + 1
           /\ connRetry' = "nil"
           /\ sockState' = "Connected"
           /\ connTimeout' = "nil"
           /\ ReleaseDialer
           /\ UNCHANGED <<mode, udtVer, isDatagram, initPktSeq, lingerTimer, mgPc>>
           /\ sendHandshake(p.SynCookie, "HsResponse")
      ELSE /\ UNCHANGED <<sockVars, timerVars, inRendezvous, mgPc, panic, mtu>>
           /\ NoHandshake

\* a connected socket that answers every Request and every Response
ReadHandshakeConnected_AnyRole(p) ==
  /\ UNCHANGED <<sockVars, timerVars, inRendezvous, mgPc, panic, mtu>>
  /\ IF p.ReqType = "HsRequest"
       THEN sendHandshake(p.SynCookie, "HsResponse")
       ELSE IF p.ReqType = "HsResponse"
              THEN sendHandshake(p.SynCookie, "HsResponse2")
              ELSE NoHandshake

\* case sockStateConnected, lines 1038-1046: only re-sends a handshake
ReadHandshakeConnected(p) ==
  /\ UNCHANGED <<sockVars, timerVars, inRendezvous, mgPc, panic, mtu>>
  /\ IF mode = "server" /\ p.ReqType = "HsRequest"
       THEN sendHandshake(p.SynCookie, "HsResponse")
       ELSE IF mode # "server" /\ p.ReqType = "HsResponse"
              THEN sendHandshake(p.SynCookie, "HsResponse2")
              ELSE NoHandshake

\* the peer's handshake is compatible with a socket started in rendezvous mode
CompatibleRendezvous(p) ==
  /\ p.ReqType = "HsRendezvous"
  /\ p.UdtVer = ProtocolVersion
  /\ SockTypeMatches(p)

\* the branch of readHandshake selected by the switch, lines 939-1047
ReadHandshakeBody(p) ==
  /\ Running /\ rhPc = "body"
  /\ CASE rhCase = "Init" -> ReadHandshakeInit(p)
       [] rhCase = "Connecting" -> ReadHandshakeConnecting(p)
       [] rhCase = "Rendezvous" -> ReadHandshakeRendezvous(p)
       [] OTHER -> ReadHandshakeConnected(p)
  /\ rvSeen' = (rvSeen \/ (rhCase = "Rendezvous" /\ sockState = "Rendezvous" /\ CompatibleRendezvous(p)))
  /\ rhPc' = "idle" /\ rhCase' = "none"
  /\ UNCHANGED <<sidVars, taskVars, routeVars, mgCase, muxMtu, cfgMaxPacketSize, rttVars, pidVars, heapVars, rloopVars, mplexVars, dlnVars, ioVars, chanVars, registered, sdArg, dlVars, wrVars, clVars,
                 senderDone, hsBudget, sdBudget, procBudget>>

\* readPacket, case *packet.ShutdownPacket: lines 1136-1150
ReadShutdownPacket(from) ==
  /\ Running /\ rhPc = "idle" /\ sdBudget > 0
  /\ mode = "server" => launched > 0
  /\ mode # "server" => dlPc # "idle"
  /\ registered
  /\ sdBudget' = sdBudget - 1
  /\ IF sockState = "Closed" \/ from # "raddr"
       THEN UNCHANGED shutdownEvent
       ELSE /\ Len(shutdownEvent) < ShutdownEventCap
            /\ shutdownEvent' = Append(shutdownEvent, [sockState |-> "Closed", permitLinger |-> TRUE])
  /\ UNCHANGED <<sidVars, taskVars, routeVars, sendVars, mtuVars, rttVars, pidVars, heapVars, rloopVars, mplexVars, dlnVars, ioVars, sockVars, timerVars, sockShutdown, sockClosed, messageIn, messageOut, messageOutClosed,
                 muxVars, rhVars, mgVars, dlVars, wrVars, clVars,
                 senderDone, hsBudget, procBudget, rvSeen, panic>>


\* ------------------------- management task (goManageConnection, shutdown)

\* shutdown(), lines 1053-1055: the isOpen check that guards the rest
ShutdownBegin(arg) ==
  IF isOpen(sockState)
    THEN mgPc' = "sd_wake" /\ sdArg' = arg
    ELSE mgPc' = "select" /\ sdArg' = sdArg

\* case <-s.lingerTimer: lines 866-869
ManageLinger ==
  /\ Running /\ mgPc = "select" /\ lingerTimer = "armed"
  /\ lingerTimer' = "spent"
  /\ registered' = FALSE
  /\ IF sockClosed
       THEN panic' = "close of closed channel: sockClosed" /\ UNCHANGED sockClosed
       ELSE sockClosed' = TRUE /\ UNCHANGED panic
  /\ mgPc' = "exited"
  /\ UNCHANGED <<sidVars, taskVars, routeVars, sendVars, mtuVars, rttVars, pidVars, heapVars, rloopVars, mplexVars, dlnVars, ioVars, sockVars, connTimeout, connRetry, shutdownEvent, sockShutdown, messageIn, messageOut,
                 messageOutClosed, inRendezvous, rhVars, sdArg, dlVars, wrVars, clVars,
                 senderDone, hsBudget, sdBudget, procBudget, rvSeen>>

\* case <-sockClosed: lines 872-873
ManageSockClosed ==
  /\ Running /\ mgPc = "select" /\ sockClosed
  /\ mgPc' = "exited"
  /\ UNCHANGED <<sidVars, taskVars, routeVars, sendVars, mtuVars, rttVars, pidVars, heapVars, rloopVars, mplexVars, dlnVars, ioVars, sockVars, timerVars, chanVars, muxVars, rhVars, sdArg, dlVars, wrVars, clVars, envVars>>

\* case sd := <-s.shutdownEvent: lines 880-881
ManageShutdownEvent ==
  /\ Running /\ mgPc = "select" /\ shutdownEvent # <<>>
  /\ shutdownEvent' = Tail(shutdownEvent)
  /\ ShutdownBegin(Head(shutdownEvent))
  /\ UNCHANGED <<sidVars, taskVars, routeVars, sendVars, mtuVars, rttVars, pidVars, heapVars, rloopVars, mplexVars, dlnVars, ioVars, sockVars, timerVars, sockShutdown, sockClosed, messageIn, messageOut, messageOutClosed,
                 muxVars, rhVars, dlVars, wrVars, clVars, envVars>>

\* case <-s.connTimeout: lines 882-883
ManageConnTimeout ==
  /\ Running /\ mgPc = "select" /\ connTimeout = "armed"
  /\ connTimeout' = "spent"
  /\ ShutdownBegin([sockState |-> "Timeout", permitLinger |-> TRUE])
  /\ UNCHANGED <<sidVars, taskVars, routeVars, sendVars, mtuVars, rttVars, pidVars, heapVars, rloopVars, mplexVars, dlnVars, ioVars, sockVars, connRetry, lingerTimer, chanVars, muxVars, rhVars, dlVars, wrVars, clVars, envVars>>

\* case <-s.connRetry, lines 884-886: the timer's value is received, connRetry
\* is cleared and the switch reads sockState
ManageConnRetry ==
  /\ Running /\ mgPc = "select" /\ connRetry = "armed"
  /\ connRetry' = "nil"
  /\ mgCase' = sockState
  /\ mgPc' = "retry"
  /\ UNCHANGED <<sidVars, taskVars, routeVars, sent, lastSent, mtuVars, rttVars, pidVars, heapVars, rloopVars, mplexVars, dlnVars, ioVars, sockVars, connTimeout, lingerTimer, chanVars, muxVars, rhVars, sdArg, dlVars, wrVars,
                 clVars, envVars>>

\* lines 887-892: in the state the switch read, the handshake is sent again
\* and the timer armed again
ManageConnRetrySend ==
  /\ Running /\ mgPc = "retry"
  /\ mgPc' = "select"
  /\ mgCase' = "none"
  /\ UNCHANGED <<sidVars, taskVars, routeVars, mtuVars, rttVars, pidVars, heapVars, rloopVars, mplexVars, dlnVars, ioVars, sockVars, connTimeout, lingerTimer, chanVars, muxVars, rhVars, sdArg, dlVars, wrVars,
                 clVars, envVars>>
  /\ CASE mgCase = "Connecting" -> connRetry' = "armed" /\ sendHandshake(0, "HsRequest")
       [] mgCase = "Rendezvous" -> connRetry' = "armed" /\ sendHandshake(0, "HsRendezvous")
       [] OTHER -> UNCHANGED connRetry /\ NoHandshake

\* shutdown(), lines 1061-1067: leave the rendezvous list, release the dialer
ShutdownWake ==
  /\ Running /\ mgPc = "sd_wake"
  /\ inRendezvous' = IF sockState = "Rendezvous" THEN FALSE ELSE inRendezvous
  /\ ReleaseDialer
  /\ mgPc' = "sd_set"
  /\ UNCHANGED <<sidVars, taskVars, routeVars, sendVars, mtuVars, rttVars, pidVars, heapVars, rloopVars, mplexVars, dlnVars, ioVars, mode, sockState, udtVer, isDatagram, farSockID, initPktSeq, launched, timerVars,
                 chanVars, registered, rhVars, sdArg, dlVars, wrVars, clVars,
                 senderDone, hsBudget, sdBudget, procBudget, rvSeen>>

\* shutdown(), lines 1068-1086: the state is assigned, the timers are replaced,
\* sockShutdown or sockClosed is closed
ShutdownSet ==
  /\ Running /\ mgPc = "sd_set"
  /\ sockState' = sdArg.sockState
  /\ connTimeout' = "nil" /\ connRetry' = "nil"
  /\ IF sdArg.permitLinger
       THEN /\ lingerTimer' = "armed"
            /\ UNCHANGED <<registered, sockClosed>>
            /\ IF sockShutdown
                 THEN panic' = "close of closed channel: sockShutdown" /\ UNCHANGED sockShutdown
                 ELSE sockShutdown' = TRUE /\ UNCHANGED panic
       ELSE /\ registered' = FALSE
            /\ UNCHANGED <<lingerTimer, sockShutdown>>
            /\ IF sockClosed
                 THEN panic' = "close of closed channel: sockClosed" /\ UNCHANGED sockClosed
                 ELSE sockClosed' = TRUE /\ UNCHANGED panic
  /\ mgPc' = "sd_push"
  /\ UNCHANGED <<sidVars, taskVars, routeVars, sendVars, mtuVars, rttVars, pidVars, heapVars, rloopVars, mplexVars, dlnVars, ioVars, mode, udtVer, isDatagram, farSockID, initPktSeq, connectWait, wgCount, launched,
                 shutdownEvent, messageIn, messageOut, messageOutClosed, inRendezvous,
                 rhVars, sdArg, dlVars, wrVars, clVars,
                 senderDone, hsBudget, sdBudget, procBudget, rvSeen>>

\* shutdown(), line 1087: s.messageIn <- nil, which waits while messageIn is full
ShutdownPush ==
  /\ Running /\ mgPc = "sd_push"
  /\ Len(messageIn) < MessageInCap
  /\ messageIn' = Append(messageIn, NilSlice)
  /\ mgPc' = "select"
  /\ UNCHANGED <<sidVars, taskVars, routeVars, sendVars, mtuVars, rttVars, pidVars, heapVars, rloopVars, mplexVars, dlnVars, ioVars, sockVars, timerVars, shutdownEvent, sockShutdown, sockClosed, messageOut, messageOutClosed,
                 muxVars, rhVars, sdArg, dlVars, wrVars, clVars, envVars>>

\* --------------------------------------------------------------- Close

\* Close(), lines 667-669: the isOpen check
CloseCheck ==
  /\ Running /\ Handed /\ clStarted < MaxCloseCalls
  /\ clStarted' = clStarted + 1
  /\ IF isOpen(sockState)
       THEN clClosing' = clClosing + 1 /\ UNCHANGED clDone
       ELSE clDone' = clDone + 1 /\ UNCHANGED clClosing
  /\ UNCHANGED <<sidVars, taskVars, routeVars, sendVars, mtuVars, rttVars, pidVars, heapVars, rloopVars, mplexVars, dlnVars, ioVars, sockVars, timerVars, chanVars, muxVars, rhVars, mgVars, dlVars, wrVars, clWaiting, envVars>>

\* Close(), line 671: close(s.messageOut)
CloseMessageOut ==
  /\ Running /\ clClosing > 0
  /\ clClosing' = clClosing - 1
  /\ clWaiting' = clWaiting + 1
  /\ IF messageOutClosed
       THEN panic' = "close of closed channel: messageOut" /\ UNCHANGED messageOutClosed
       ELSE messageOutClosed' = TRUE /\ UNCHANGED panic
  /\ UNCHANGED <<sidVars, taskVars, routeVars, sendVars, mtuVars, rttVars, pidVars, heapVars, rloopVars, mplexVars, dlnVars, ioVars, sockVars, timerVars, shutdownEvent, sockShutdown, sockClosed, messageIn, messageOut,
                 muxVars, rhVars, mgVars, dlVars, wrVars, clStarted, clDone,
                 senderDone, hsBudget, sdBudget, procBudget, rvSeen>>

\* Close(), lines 672-673: receive one shutdownMessage, return nil
CloseWait ==
  /\ Running /\ clWaiting > 0 /\ shutdownEvent # <<>>
  /\ shutdownEvent' = Tail(shutdownEvent)
  /\ clWaiting' = clWaiting - 1
  /\ clDone' = clDone + 1
  /\ UNCHANGED <<sidVars, taskVars, routeVars, sendVars, mtuVars, rttVars, pidVars, heapVars, rloopVars, mplexVars, dlnVars, ioVars, sockVars, timerVars, sockShutdown, sockClosed, messageIn, messageOut, messageOutClosed,
                 muxVars, rhVars, mgVars, dlVars, wrVars, clStarted, clClosing, envVars>>

\* --------------------------------------------------------------- Write

\* Write(), lines 623-633: the switch on sockState
WriteSwitch ==
  /\ Running /\ Handed /\ wrPc \in {"idle", "done"} /\ wrCalls < MaxWrites
  /\ wrCalls' = wrCalls + 1
  /\ wrState' = sockState
  /\ IF sockState \in {"Refused", "Corrupted", "Closed"}
       THEN wrPc' = "done" /\ wrErr' = connectionError(sockState)
       ELSE wrPc' = "send" /\ wrErr' = "nil"
  /\ UNCHANGED <<sidVars, taskVars, routeVars, sendVars, mtuVars, rttVars, pidVars, heapVars, rloopVars, mplexVars, dlnVars, ioVars, sockVars, timerVars, chanVars, muxVars, rhVars, mgVars, dlVars, clVars, envVars>>

\* Write(), lines 646-649: s.messageOut <- sendMessage{...}
WriteSend ==
  /\ Running /\ wrPc = "send"
  /\ ~deadlinePassed["write"]
  /\ IF messageOutClosed
       THEN panic' = "send on closed channel: messageOut" /\ UNCHANGED <<messageOut, wrPc>>
       ELSE /\ messageOut < MessageOutCap
            /\ messageOut' = messageOut + 1
            /\ wrPc' = "done"
            /\ UNCHANGED panic
  /\ UNCHANGED <<sidVars, taskVars, routeVars, sendVars, mtuVars, rttVars, pidVars, heapVars, rloopVars, mplexVars, dlnVars, ioVars, sockVars, timerVars, shutdownEvent, sockShutdown, sockClosed, messageIn, messageOutClosed,
                 muxVars, rhVars, mgVars, dlVars, wrState, wrErr, wrCalls, clVars,
                 senderDone, hsBudget, sdBudget, procBudget, rvSeen>>

\* Write(), lines 638-641 and 650-656: the deadline had passed, or the select
\* receives from the timer; Write returns ETIMEDOUT
WriteDeadline ==
  /\ Running /\ wrPc = "send"
  /\ deadlinePassed["write"] \/ DeadlineReady("write")
  /\ IF deadlinePassed["write"]
       THEN UNCHANGED <<deadlineC, deadlinePassed, observed>>
       ELSE /\ deadlineC' = [deadlineC EXCEPT !["write"] = "empty"]
            /\ deadlinePassed' = [deadlinePassed EXCEPT !["write"] = TRUE]
            /\ observed' = [observed EXCEPT !["write"] = TRUE]
  /\ wrErr' = "ETIMEDOUT"
  /\ wrPc' = "done"
  /\ UNCHANGED <<sidVars, taskVars, routeVars, sendVars, mtuVars, rttVars, pidVars, heapVars, rloopVars, mplexVars, sockVars, timerVars, chanVars, muxVars, rhVars, mgVars, dlVars, wrState, wrCalls, clVars, envVars,
                 ioVars, deadline, sdlPc, sdlQueue, sdlDl, sdlCalls>>

\* ------------------------------------------- send and receive engines

\* shutdown requests the engines raise on a connected socket: EXP exhaustion
\* (Timeout, lingering) and a protocol violation by the peer (Corrupted, immediate)
EngineShutdowns ==
  {[sockState |-> "Timeout", permitLinger |-> TRUE],
   [sockState |-> "Corrupted", permitLinger |-> FALSE]}

EngineShutdown(ev) ==
  /\ Running /\ launched > 0 /\ sockState = "Connected" /\ procBudget > 0
  /\ Len(shutdownEvent) < ShutdownEventCap
  /\ procBudget' = procBudget - 1
  /\ shutdownEvent' = Append(shutdownEvent, ev)
  /\ UNCHANGED <<sidVars, taskVars, routeVars, sendVars, mtuVars, rttVars, pidVars, heapVars, rloopVars, mplexVars, dlnVars, ioVars, sockVars, timerVars, sockShutdown, sockClosed, messageIn, messageOut, messageOutClosed,
                 muxVars, rhVars, mgVars, dlVars, wrVars, clVars,
                 senderDone, hsBudget, sdBudget, rvSeen, panic>>

\* the send engine finds messageOut closed and asks for the shutdown Close() waits on
SenderSeesClose ==
  /\ Running /\ launched > 0 /\ messageOutClosed /\ ~senderDone
  /\ Len(shutdownEvent) < ShutdownEventCap
  /\ senderDone' = TRUE
  /\ shutdownEvent' = Append(shutdownEvent, [sockState |-> "Closed", permitLinger |-> TRUE])
  /\ UNCHANGED <<sidVars, taskVars, routeVars, sendVars, mtuVars, rttVars, pidVars, heapVars, rloopVars, mplexVars, dlnVars, ioVars, sockVars, timerVars, sockShutdown, sockClosed, messageIn, messageOut, messageOutClosed,
                 muxVars, rhVars, mgVars, dlVars, wrVars, clVars,
                 hsBudget, sdBudget, procBudget, rvSeen, panic>>

\* ---------------------------------------------------------------- Read

Min(a, b) == IF a < b THEN a ELSE b

\* the receive engine queues a message of len bytes on messageIn
Deliver(len) ==
  /\ Running /\ launched > 0 /\ sockState = "Connected"
  /\ Len(messageIn) < MessageInCap
  /\ delivered + len <= MaxBytes
  /\ messageIn' = Append(messageIn, [i \in 1..len |-> delivered + i])
  /\ delivered' = delivered + len
  /\ msgsDelivered' = msgsDelivered + 1
  /\ UNCHANGED <<sidVars, taskVars, routeVars, sendVars, mtuVars, rttVars, pidVars, heapVars, rloopVars, mplexVars, dlnVars, sockVars, timerVars, shutdownEvent, sockShutdown, sockClosed, messageOut, messageOutClosed,
                 muxVars, rhVars, mgVars, dlVars, wrVars, clVars, envVars,
                 currPartialRead, rdPc, rdConnErr, rdLen, rdOut, rdErr, rdCalls, msgsRead, readLog>>

\* Read(p), line 558-559: connErr := s.connectionError(), then the branch on isDatagram
ReadBegin(l) ==
  /\ Running /\ Handed /\ rdPc \in {"idle", "done"} /\ rdCalls < MaxReads
  /\ rdCalls' = rdCalls + 1
  /\ rdConnErr' = connectionError(sockState)
  /\ rdLen' = l
  /\ rdOut' = <<>>
  /\ rdErr' = "nil"
  /\ rdPc' = IF isDatagram THEN "dgram" ELSE "stream"
  /\ UNCHANGED <<sidVars, taskVars, routeVars, sendVars, mtuVars, rttVars, pidVars, heapVars, rloopVars, mplexVars, dlnVars, sockVars, timerVars, chanVars, muxVars, rhVars, mgVars, dlVars, wrVars, clVars, envVars,
                 currPartialRead, delivered, msgsDelivered, msgsRead, readLog>>

\* fetchReadPacket without the test of readDeadlinePassed at line 507
CanFetch_NoPassedCheck(blocking) == messageIn # <<>> \/ ~blocking

\* fetchReadPacket(blocking) takes from messageIn: when blocking, the deadline has
\* not passed (line 507) and a message is queued (line 515); otherwise always
\* (lines 527-533), with nil when none is queued
CanFetch(blocking) ==
  IF blocking
    THEN ~deadlinePassed["read"] /\ messageIn # <<>>
    ELSE TRUE

\* Read is in fetchReadPacket(true): lines 562 and 584
ReadBlocking ==
  \/ rdPc = "dgram" /\ rdConnErr = "nil"
  \/ /\ rdPc = "stream" /\ rdConnErr = "nil"
     /\ rdOut = <<>> /\ rdLen > 0 /\ currPartialRead = NilSlice

\* fetchReadPacket(true) returns ETIMEDOUT: the deadline had passed (lines 507-509)
\* or the select receives from the timer (lines 517-522); Read returns the error
ReadDeadline ==
  /\ Running /\ ReadBlocking
  /\ deadlinePassed["read"] \/ DeadlineReady("read")
  /\ IF deadlinePassed["read"]
       THEN UNCHANGED <<deadlineC, deadlinePassed, observed>>
       ELSE /\ deadlineC' = [deadlineC EXCEPT !["read"] = "empty"]
            /\ deadlinePassed' = [deadlinePassed EXCEPT !["read"] = TRUE]
            /\ observed' = [observed EXCEPT !["read"] = TRUE]
  /\ rdErr' = "ETIMEDOUT"
  /\ rdPc' = "done"
  /\ UNCHANGED <<sidVars, taskVars, routeVars, sendVars, mtuVars, rttVars, pidVars, heapVars, rloopVars, mplexVars, sockVars, timerVars, chanVars, muxVars, rhVars, mgVars, dlVars, wrVars, clVars, envVars,
                 currPartialRead, rdConnErr, rdLen, rdOut, rdCalls, delivered, msgsDelivered, msgsRead, readLog,
                 deadline, sdlPc, sdlQueue, sdlDl, sdlCalls>>

\* fetchReadPacket: the message taken from messageIn, NilSlice when none is there
Fetched == IF messageIn # <<>> THEN Head(messageIn) ELSE NilSlice

AfterFetch == IF messageIn # <<>> THEN Tail(messageIn) ELSE messageIn

\* line 572 with "<=" for "<"
Truncated_OrEqual(n, msg) == n <= Len(msg)

\* line 572: n < len(msg), n being what copy(p, msg) returned
Truncated(n, msg) == n < Len(msg)

\* Read, datagram branch: lines 560-574
ReadDatagram ==
  /\ Running /\ rdPc = "dgram"
  /\ CanFetch(rdConnErr = "nil")
  /\ messageIn' = AfterFetch
  /\ msgsRead' = IF Fetched = NilSlice THEN msgsRead ELSE msgsRead + 1
  /\ IF Fetched = NilSlice /\ rdConnErr # "nil"
       THEN rdErr' = rdConnErr /\ rdOut' = <<>>
       ELSE LET n == Min(rdLen, Len(Fetched))
            IN /\ rdOut' = SubSeq(Fetched, 1, n)
               /\ rdErr' = IF Truncated(n, Fetched) THEN "Message truncated" ELSE "nil"
  /\ readLog' = readLog \o rdOut'
  /\ rdPc' = "done"
  /\ UNCHANGED <<sidVars, taskVars, routeVars, sendVars, mtuVars, rttVars, pidVars, heapVars, rloopVars, mplexVars, dlnVars, sockVars, timerVars, shutdownEvent, sockShutdown, sockClosed, messageOut, messageOutClosed,
                 muxVars, rhVars, mgVars, dlVars, wrVars, clVars, envVars,
                 currPartialRead, rdConnErr, rdLen, rdCalls, delivered, msgsDelivered>>

\* lines 603-608: what Read keeps of the current message, n being the number
\* of bytes copied by this call so far
StreamRest(cur, n) ==
  IF n >= Len(cur) THEN NilSlice ELSE SubSeq(cur, n + 1, Len(cur))

\* Read, stream branch: one turn of the loop "for idx < l", lines 581-609
ReadStream ==
  /\ Running /\ rdPc = "stream"
  /\ LET n == Len(rdOut)
         fetch == currPartialRead = NilSlice
         cur == IF fetch THEN Fetched ELSE currPartialRead
         thisN == Min(rdLen - n, Len(cur))
     IN IF n >= rdLen
          THEN \* the loop ends: return n, nil
               /\ rdPc' = "done"
               /\ readLog' = readLog \o rdOut
               /\ UNCHANGED <<messageIn, currPartialRead, rdOut, rdErr>>
          ELSE /\ fetch => CanFetch(n = 0 /\ rdConnErr = "nil")
               /\ messageIn' = IF fetch THEN AfterFetch ELSE messageIn
               /\ IF cur = NilSlice /\ n # 0
                    THEN /\ rdPc' = "done"
                         /\ readLog' = readLog \o rdOut
                         /\ currPartialRead' = NilSlice
                         /\ UNCHANGED <<rdOut, rdErr>>
                    ELSE IF cur = NilSlice /\ rdConnErr # "nil"
                      THEN /\ rdPc' = "done"
                           /\ rdErr' = rdConnErr
                           /\ currPartialRead' = NilSlice
                           /\ UNCHANGED <<rdOut, readLog>>
                      ELSE /\ rdOut' = rdOut \o SubSeq(cur, 1, thisN)
                           /\ currPartialRead' = StreamRest(cur, n + thisN)
                           /\ UNCHANGED <<rdPc, rdErr, readLog>>
  /\ UNCHANGED <<sidVars, taskVars, routeVars, sendVars, mtuVars, rttVars, pidVars, heapVars, rloopVars, mplexVars, dlnVars, sockVars, timerVars, shutdownEvent, sockShutdown, sockClosed, messageOut, messageOutClosed,
                 muxVars, rhVars, mgVars, dlVars, wrVars, clVars, envVars,
                 rdConnErr, rdLen, rdCalls, delivered, msgsDelivered, msgsRead>>

\* ----------------------------------------------------------- deadlines

\* the timers SetDeadline, SetReadDeadline and SetWriteDeadline set, in order
DeadlineCalls == {<<"read", "write">>, <<"read">>, <<"write">>}

\* a running timer reaches its time and puts a value in its channel
DeadlineFires(w) ==
  /\ Running /\ deadlineC[w] = "armed"
  /\ deadlineC' = [deadlineC EXCEPT ![w] = "fired"]
  /\ UNCHANGED <<sidVars, taskVars, routeVars, sendVars, mtuVars, rttVars, pidVars, heapVars, rloopVars, mplexVars, sockVars, timerVars, chanVars, muxVars, rhVars, mgVars, dlVars, wrVars, clVars, envVars,
                 ioVars, deadline, deadlinePassed, observed, sdlPc, sdlQueue, sdlDl, sdlCalls>>

\* SetDeadline(t), SetReadDeadline(t), SetWriteDeadline(t) are called
SetDeadlineBegin(q, dl) ==
  /\ Running /\ Handed /\ sdlPc = "idle" /\ sdlCalls < MaxSetDeadlines
  /\ sdlCalls' = sdlCalls + 1
  /\ sdlPc' = "call" /\ sdlQueue' = q /\ sdlDl' = dl
  /\ observed' = [w \in Deadlines |-> observed[w] /\ (\A i \in 1..Len(q) : q[i] # w)]
  /\ UNCHANGED <<sidVars, taskVars, routeVars, sendVars, mtuVars, rttVars, pidVars, heapVars, rloopVars, mplexVars, sockVars, timerVars, chanVars, muxVars, rhVars, mgVars, dlVars, wrVars, clVars, envVars,
                 ioVars, deadline, deadlineC, deadlinePassed>>

\* the position after setDeadline returns for the timer at the head of sdlQueue
SetDeadlineReturn ==
  /\ sdlQueue' = Tail(sdlQueue)
  /\ sdlPc' = IF Tail(sdlQueue) = <<>> THEN "idle" ELSE "call"

\* setDeadline, lines 727-740: a new timer when there is none; otherwise the
\* passed flag for a time before now, the pointer cleared for the zero time,
\* and the old timer stopped
SetDeadlineEnter ==
  /\ Running /\ sdlPc = "call"
  /\ LET w == Head(sdlQueue)
     IN IF deadline[w] = "nil"
          THEN /\ IF sdlDl = "zero"
                    THEN UNCHANGED <<deadline, deadlineC>>
                    ELSE /\ deadline' = [deadline EXCEPT ![w] = "set"]
                         /\ deadlineC' = [deadlineC EXCEPT ![w] = IF sdlDl = "past" THEN "fired" ELSE "armed"]
               /\ UNCHANGED deadlinePassed
               /\ SetDeadlineReturn
          ELSE /\ deadlinePassed' = [deadlinePassed EXCEPT ![w] = IF sdlDl = "past" THEN TRUE ELSE @]
               /\ deadline' = [deadline EXCEPT ![w] = IF sdlDl = "zero" THEN "nil" ELSE @]
               /\ deadlineC' = [deadlineC EXCEPT ![w] = IF @ = "armed" THEN "empty" ELSE @]
               /\ sdlPc' = "drain"
               /\ UNCHANGED sdlQueue
  /\ UNCHANGED <<sidVars, taskVars, routeVars, sendVars, mtuVars, rttVars, pidVars, heapVars, rloopVars, mplexVars, sockVars, timerVars, chanVars, muxVars, rhVars, mgVars, dlVars, wrVars, clVars, envVars,
                 ioVars, observed, sdlDl, sdlCalls>>

\* setDeadline, lines 741-745: "_, _ = <-oldTime.C" receives the value waiting in
\* the stopped timer's channel (and waits while there is none), then the timer
\* is reset for a time after now
SetDeadlineDrain ==
  /\ Running /\ sdlPc = "drain"
  /\ LET w == Head(sdlQueue)
     IN /\ deadlineC[w] = "fired"
        /\ deadlineC' = [deadlineC EXCEPT ![w] = CASE sdlDl = "future" -> "armed"
                                                   [] sdlDl = "zero" -> "none"
                                                   [] OTHER -> "empty"]
        /\ deadlinePassed' = [deadlinePassed EXCEPT ![w] = IF sdlDl = "future" THEN FALSE ELSE @]
  /\ SetDeadlineReturn
  /\ UNCHANGED <<sidVars, taskVars, routeVars, sendVars, mtuVars, rttVars, pidVars, heapVars, rloopVars, mplexVars, sockVars, timerVars, chanVars, muxVars, rhVars, mgVars, dlVars, wrVars, clVars, envVars,
                 ioVars, deadline, observed, sdlDl, sdlCalls>>

\* ------------------------------------------- multiplexer (lifetime)

\* multiplexer.isLive, lines 243-265
isLive(m) ==
  /\ conn[m] # "nil"
  /\ \/ listenSock[m] # 0
     \/ rvSockets[m] # {}
     \/ sockets[m] # {}

\* everything of the socket, which the multiplexer's lifetime does not touch
socketFields ==
  <<sockVars, timerVars, chanVars, muxVars, rhVars, mgVars, dlVars, wrVars, clVars, ioVars, dlnVars,
    senderDone, hsBudget, sdBudget, procBudget, rvSeen, rloopVars, heapVars, pidVars, rttVars, mtuVars, sendVars, routeVars,
    sidVars, taskVars>>

\* multiplexerFor, line 53: multiplexers.Load(key)
MultiplexerForLoad(g) ==
  /\ Running /\ goPc[g] = "idle"
  /\ goM' = [goM EXCEPT ![g] = multiplexers]
  /\ goPc' = [goPc EXCEPT ![g] = IF multiplexers # 0 THEN "loaded" ELSE "listen"]
  /\ UNCHANGED <<socketFields, panic, multiplexers, conn, listenSock, sockets, rvSockets>>

\* multiplexerFor, lines 55-57: the multiplexer loaded is returned when isLive
MultiplexerForIsLive(g) ==
  /\ Running /\ goPc[g] = "loaded"
  /\ goPc' = [goPc EXCEPT ![g] = IF isLive(goM[g]) THEN "have" ELSE "listen"]
  /\ UNCHANGED <<socketFields, panic, multiplexers, conn, listenSock, sockets, rvSockets, goM>>

\* multiplexerFor, lines 84-91: a new endpoint and a new multiplexer around it
MultiplexerForListen(g) ==
  /\ Running /\ goPc[g] = "listen"
  /\ \E m \in Multiplexers :
       /\ conn[m] = "none"
       /\ \A k \in Multiplexers : k < m => conn[k] # "none"
       /\ conn' = [conn EXCEPT ![m] = "open"]
       /\ goM' = [goM EXCEPT ![g] = m]
  /\ goPc' = [goPc EXCEPT ![g] = "store"]
  /\ UNCHANGED <<socketFields, panic, multiplexers, listenSock, sockets, rvSockets>>

\* multiplexerFor, lines 92-93: multiplexers.Store(key, m); return m
MultiplexerForStore(g) ==
  /\ Running /\ goPc[g] = "store"
  /\ multiplexers' = goM[g]
  /\ goPc' = [goPc EXCEPT ![g] = "have"]
  /\ UNCHANGED <<socketFields, panic, conn, listenSock, sockets, rvSockets, goM>>

\* multiplexer.newSocket, lines 196-206, on the multiplexer multiplexerFor returned
MuxNewSocket(g) ==
  /\ Running /\ goPc[g] = "have"
  /\ sockets' = [sockets EXCEPT ![goM[g]] = @ \cup {g}]
  /\ goPc' = [goPc EXCEPT ![g] = "socket"]
  /\ UNCHANGED <<socketFields, panic, multiplexers, conn, listenSock, rvSockets, goM>>

\* multiplexer.listenUDT, lines 124-132, on the multiplexer multiplexerFor returned
listenUDT(g) ==
  /\ Running /\ goPc[g] = "have"
  /\ IF listenSock[goM[g]] # 0
       THEN /\ goPc' = [goPc EXCEPT ![g] = "done"]
            /\ UNCHANGED listenSock
       ELSE /\ listenSock' = [listenSock EXCEPT ![goM[g]] = g]
            /\ goPc' = [goPc EXCEPT ![g] = "listener"]
  /\ UNCHANGED <<socketFields, panic, multiplexers, conn, sockets, rvSockets, goM>>

\* multiplexer.closeSocket, lines 208-213, up to the call of checkLive
closeSocket(g) ==
  /\ Running /\ goPc[g] = "socket"
  /\ sockets' = [sockets EXCEPT ![goM[g]] = @ \ {g}]
  /\ goPc' = [goPc EXCEPT ![g] = "checkLive"]
  /\ UNCHANGED <<socketFields, panic, multiplexers, conn, listenSock, rvSockets, goM>>

\* multiplexer.unlistenUDT, lines 134-142, up to the call of checkLive
unlistenUDT(g) ==
  /\ Running /\ goPc[g] = "listener"
  /\ listenSock' = [listenSock EXCEPT ![goM[g]] = 0]
  /\ goPc' = [goPc EXCEPT ![g] = "checkLive"]
  /\ UNCHANGED <<socketFields, panic, multiplexers, conn, sockets, rvSockets, goM>>

\* checkLive, lines 218-223: nothing to do when destructed or in use
CheckLiveEnter(g) ==
  /\ Running /\ goPc[g] = "checkLive"
  /\ goPc' = [goPc EXCEPT ![g] = IF conn[goM[g]] = "nil" \/ isLive(goM[g]) THEN "done" ELSE "delete"]
  /\ UNCHANGED <<socketFields, panic, multiplexers, conn, listenSock, sockets, rvSockets, goM>>

\* checkLive, lines 226-227: multiplexers.Delete(key), whatever is stored there
CheckLiveDelete(g) ==
  /\ Running /\ goPc[g] = "delete"
  /\ multiplexers' = 0
  /\ goPc' = [goPc EXCEPT ![g] = "recheck"]
  /\ UNCHANGED <<socketFields, panic, conn, listenSock, sockets, rvSockets, goM>>

\* checkLive, lines 228-231: registered again when found in use after all
CheckLiveRecheck(g) ==
  /\ Running /\ goPc[g] = "recheck"
  /\ IF isLive(goM[g])
       THEN /\ multiplexers' = goM[g]
            /\ goPc' = [goPc EXCEPT ![g] = "done"]
       ELSE /\ goPc' = [goPc EXCEPT ![g] = "teardown"]
            /\ UNCHANGED multiplexers
  /\ UNCHANGED <<socketFields, panic, conn, listenSock, sockets, rvSockets, goM>>

\* checkLive, lines 234-240: m.conn.Close(); m.conn = nil; the channels closed
CheckLiveTeardown(g) ==
  /\ Running /\ goPc[g] = "teardown"
  /\ IF conn[goM[g]] = "nil"
       THEN panic' = "nil pointer dereference: m.conn" /\ UNCHANGED conn
       ELSE conn' = [conn EXCEPT ![goM[g]] = "nil"] /\ UNCHANGED panic
  /\ goPc' = [goPc EXCEPT ![g] = "done"]
  /\ UNCHANGED <<socketFields, multiplexers, listenSock, sockets, rvSockets, goM>>

\* ------------------------------------- read loop (goRead, readPacket)

\* what readPacket leaves alone
notReadPacket ==
  <<sockVars, timerVars, sockShutdown, sockClosed, messageIn, messageOut, messageOutClosed, muxVars, rhVars,
    mgVars, dlVars, wrVars, clVars, envVars, ioVars, dlnVars, mplexVars, heapVars, pidVars, rttVars, mtuVars, sendVars, routeVars, sidVars, taskVars>>

\* goRead, lines 274-317, and readPacket, lines 1135-1142: a datagram for
\* another connection is handed to that connection; one for this socket goes on
\* to the send on recvEvent unless the socket is Closed or the sender is not the peer
GoRead(own, kind, from) ==
  /\ Running /\ rlPc = "read" /\ rhPc = "idle" /\ dgBudget > 0
  /\ dgBudget' = dgBudget - 1
  /\ IF own /\ registered /\ sockState # "Closed" /\ from = "raddr"
       THEN rlPc' = "recvEvent" /\ rlPkt' = kind
       ELSE UNCHANGED <<rlPc, rlPkt>>
  /\ UNCHANGED <<notReadPacket, shutdownEvent, recvEvent, sendEvent>>

\* readPacket, line 1144: s.recvEvent <- recvPktEvent{...}, then the type switch
ReadPacketRecvEvent ==
  /\ Running /\ rlPc = "recvEvent"
  /\ recvEvent < RecvEventCap
  /\ recvEvent' = recvEvent + 1
  /\ rlPc' = CASE rlPkt = "Shutdown" -> "shutdownEvent"
               [] rlPkt = "Ack" -> "sendEvent"
               [] OTHER -> "read"
  /\ UNCHANGED <<notReadPacket, shutdownEvent, sendEvent, rlPkt, dgBudget>>

\* readPacket, line 1150: s.shutdownEvent <- shutdownMessage{...}
ReadPacketShutdownEvent ==
  /\ Running /\ rlPc = "shutdownEvent"
  /\ Len(shutdownEvent) < ShutdownEventCap
  /\ shutdownEvent' = Append(shutdownEvent, [sockState |-> "Closed", permitLinger |-> TRUE])
  /\ rlPc' = "read"
  /\ UNCHANGED <<notReadPacket, recvEvent, sendEvent, rlPkt, dgBudget>>

\* readPacket, line 1152: s.sendEvent <- recvPktEvent{...}
ReadPacketSendEvent ==
  /\ Running /\ rlPc = "sendEvent"
  /\ sendEvent < SendEventCap
  /\ sendEvent' = sendEvent + 1
  /\ rlPc' = "read"
  /\ UNCHANGED <<notReadPacket, shutdownEvent, recvEvent, rlPkt, dgBudget>>

\* the receive engine takes an event from recvEvent
ReceiverTakes ==
  /\ Running /\ launched > 0 /\ ~sockClosed
  /\ recvEvent > 0
  /\ recvEvent' = recvEvent - 1
  /\ UNCHANGED <<notReadPacket, shutdownEvent, sendEvent, rlPc, rlPkt, dgBudget>>

\* the send engine takes an event from sendEvent
SenderTakes ==
  /\ Running /\ launched > 0 /\ ~sockClosed
  /\ sendEvent > 0
  /\ sendEvent' = sendEvent - 1
  /\ UNCHANGED <<notReadPacket, shutdownEvent, recvEvent, rlPc, rlPkt, dgBudget>>

\* ------------------------------------------------------ dataPacketHeap

Seqs == 0..MaxSeq

\* h[i] of the Go slice
At(h, i) == h[i + 1]

\* dataPacketHeap.Less, lines 16-18
dataPacketHeapLess(h, i, j) == At(h, i) < At(h, j)

\* dataPacketHeap.Swap, lines 20-22
dataPacketHeapSwap(h, i, j) ==
  [k \in 1..Len(h) |-> IF k = i + 1 THEN h[j + 1] ELSE IF k = j + 1 THEN h[i + 1] ELSE h[k]]

\* dataPacketHeap.Pop, lines 28-34: the slice without its last element
dataPacketHeapPop(h) == SubSeq(h, 1, Len(h) - 1)

\* container/heap: up(h, j)
RECURSIVE heapUp(_, _)
heapUp(h, j) ==
  LET i == (j - 1) \div 2
  IN IF j = 0 \/ i = j \/ ~dataPacketHeapLess(h, j, i)
       THEN h
       ELSE heapUp(dataPacketHeapSwap(h, i, j), i)

\* container/heap: down(h, i0, n); the heap and the index the element ends at
RECURSIVE heapDown(_, _, _)
heapDown(h, i, n) ==
  LET j1 == 2 * i + 1
      j2 == j1 + 1
      j == IF j2 < n /\ dataPacketHeapLess(h, j2, j1) THEN j2 ELSE j1
  IN IF j1 >= n
       THEN [h |-> h, i |-> i]
       ELSE IF ~dataPacketHeapLess(h, j, i)
              THEN [h |-> h, i |-> i]
              ELSE heapDown(dataPacketHeapSwap(h, i, j), j, n)

\* heap.Push(h, x): dataPacketHeap.Push (lines 24-26), then up
heapPush(h, x) == heapUp(Append(h, x), Len(h))

\* heap.Pop(h): Swap(0, n), down(0, n), dataPacketHeap.Pop
heapPop(h) ==
  LET n == Len(h) - 1
  IN dataPacketHeapPop(heapDown(dataPacketHeapSwap(h, 0, n), 0, n).h)

\* heap.Remove(h, i): Swap(i, n), down(i, n) or else up(i), dataPacketHeap.Pop
heapRemove(h, i) ==
  LET n == Len(h) - 1
      s == dataPacketHeapSwap(h, i, n)
      d == heapDown(s, i, n)
  IN IF n = i
       THEN dataPacketHeapPop(h)
       ELSE dataPacketHeapPop(IF d.i > i THEN d.h ELSE heapUp(s, i))

\* the loop of Find, UpperBound and Remove at index idx, lines 53-63, 70-78,
\* 85-96: the index it stops at with h[idx].Seq = packetID (only when
\* stopAtEqual), Len(h) when it runs off the slice, and -1 when it never ends,
\* the next index being the one it is at
RECURSIVE Walk(_, _, _, _)
Walk(h, packetID, idx, stopAtEqual) ==
  IF idx >= Len(h)
    THEN Len(h)
    ELSE LET pid == At(h, idx)
             next == IF pid > packetID THEN idx * 2 ELSE idx * 2 + 1
         IN IF stopAtEqual /\ pid = packetID
              THEN idx
              ELSE IF next = idx THEN -1 ELSE Walk(h, packetID, next, stopAtEqual)

\* dataPacketHeap.Min, lines 36-48: "return" with the index returned, "panic"
\* when h[idx] is outside the slice, "loop" when the index no longer changes
RECURSIVE dataPacketHeapMin(_, _)
dataPacketHeapMin(h, idx) ==
  LET newIdx == idx * 2
  IN IF newIdx >= Len(h)
       THEN IF idx < Len(h) THEN [ends |-> "return", idx |-> idx] ELSE [ends |-> "panic", idx |-> idx]
       ELSE IF newIdx = idx
              THEN [ends |-> "loop", idx |-> idx]
              ELSE dataPacketHeapMin(h, newIdx)

\* dataPacketHeap.Find, lines 50-65
dataPacketHeapFind(h, packetID) ==
  LET at == Walk(h, packetID, 0, TRUE)
  IN CASE at = -1 -> NoReturn
       [] at = Len(h) -> [returns |-> TRUE, pkt |-> NilPacket, idx |-> -1, ok |-> FALSE]
       [] OTHER -> [returns |-> TRUE, pkt |-> At(h, at), idx |-> at, ok |-> TRUE]

\* dataPacketHeap.UpperBound, lines 67-80: the loop has no return in it
dataPacketHeapUpperBound(h, packetID) ==
  LET at == Walk(h, packetID, 0, FALSE)
  IN IF at = -1
       THEN NoReturn
       ELSE [returns |-> TRUE, pkt |-> NilPacket, idx |-> -1, ok |-> FALSE]

\* dataPacketHeap.Remove, lines 82-98: the heap afterwards and the result
dataPacketHeapRemove(h, packetID) ==
  LET at == Walk(h, packetID, 0, TRUE)
  IN CASE at = -1 -> [h |-> h, ret |-> NoReturn]
       [] at = Len(h) -> [h |-> h, ret |-> [returns |-> TRUE, pkt |-> NilPacket, idx |-> -1, ok |-> FALSE]]
       [] OTHER -> [h |-> heapRemove(h, at),
                    ret |-> [returns |-> TRUE, pkt |-> NilPacket, idx |-> -1, ok |-> TRUE]]

\* the Seq values of the packets in the heap
Held(h) == {h[k] : k \in 1..Len(h)}

\* everything but the heap
notHeap ==
  <<sockVars, timerVars, chanVars, muxVars, rhVars, mgVars, dlVars, wrVars, clVars, envVars, ioVars, dlnVars,
    mplexVars, rloopVars, pidVars, rttVars, mtuVars, sendVars, routeVars, sidVars, taskVars>>

\* heap.Push of a packet the heap does not hold yet
HeapPush(x) ==
  /\ Len(dpHeap) < MaxHeapLen /\ x \notin Held(dpHeap)
  /\ dpHeap' = heapPush(dpHeap, x)
  /\ dpOp' = "Push" /\ dpArg' = x /\ dpBefore' = dpHeap /\ dpRet' = NoReturn
  /\ UNCHANGED notHeap

\* heap.Pop
HeapPop ==
  /\ dpHeap # <<>>
  /\ dpHeap' = heapPop(dpHeap)
  /\ dpOp' = "Pop" /\ dpArg' = dpHeap[1] /\ dpBefore' = dpHeap /\ dpRet' = NoReturn
  /\ UNCHANGED notHeap

\* a call of Min
HeapMin ==
  /\ LET r == dataPacketHeapMin(dpHeap, 0)
     IN /\ dpRet' = IF r.ends = "return"
                      THEN [returns |-> TRUE, pkt |-> At(dpHeap, r.idx), idx |-> r.idx, ok |-> TRUE]
                      ELSE NoReturn
        /\ panic' = IF r.ends = "panic" THEN "index out of range: dataPacketHeap.Min" ELSE panic
  /\ dpOp' = "Min" /\ dpArg' = 0 /\ dpBefore' = dpHeap
  /\ UNCHANGED <<sockVars, timerVars, chanVars, muxVars, rhVars, mgVars, dlVars, wrVars, clVars, ioVars, dlnVars,
                 mplexVars, rloopVars, pidVars, rttVars, mtuVars, sendVars, routeVars, sidVars, taskVars,
                 senderDone, hsBudget, sdBudget, procBudget, rvSeen, dpHeap>>

\* a call of Find
HeapFind(id) ==
  /\ dpRet' = dataPacketHeapFind(dpHeap, id)
  /\ dpOp' = "Find" /\ dpArg' = id /\ dpBefore' = dpHeap
  /\ UNCHANGED <<notHeap, dpHeap>>

\* a call of UpperBound
HeapUpperBound(k) ==
  /\ dpRet' = dataPacketHeapUpperBound(dpHeap, k)
  /\ dpOp' = "UpperBound" /\ dpArg' = k /\ dpBefore' = dpHeap
  /\ UNCHANGED <<notHeap, dpHeap>>

\* a call of Remove
HeapRemove(id) ==
  /\ dpHeap' = dataPacketHeapRemove(dpHeap, id).h
  /\ dpRet' = dataPacketHeapRemove(dpHeap, id).ret
  /\ dpOp' = "Remove" /\ dpArg' = id /\ dpBefore' = dpHeap
  /\ UNCHANGED notHeap

\* -------------------------------------------------------- packetIDHeap

\* packetIDHeap.Less, lines 30-32
packetIDHeapLess(h, i, j) == At(h, i) < At(h, j)

\* packetIDHeap.Swap, lines 34-36
packetIDHeapSwap(h, i, j) ==
  [k \in 1..Len(h) |-> IF k = i + 1 THEN h[j + 1] ELSE IF k = j + 1 THEN h[i + 1] ELSE h[k]]

\* packetIDHeap.Pop, lines 42-48
packetIDHeapPop(h) == SubSeq(h, 1, Len(h) - 1)

\* container/heap: up(h, j), over a packetIDHeap
RECURSIVE pidUp(_, _)
pidUp(h, j) ==
  LET i == (j - 1) \div 2
  IN IF j = 0 \/ i = j \/ ~packetIDHeapLess(h, j, i)
       THEN h
       ELSE pidUp(packetIDHeapSwap(h, i, j), i)

\* container/heap: down(h, i0, n), over a packetIDHeap
RECURSIVE pidDown(_, _, _)
pidDown(h, i, n) ==
  LET j1 == 2 * i + 1
      j2 == j1 + 1
      j == IF j2 < n /\ packetIDHeapLess(h, j2, j1) THEN j2 ELSE j1
  IN IF j1 >= n
       THEN h
       ELSE IF ~packetIDHeapLess(h, j, i)
              THEN h
              ELSE pidDown(packetIDHeapSwap(h, i, j), j, n)

\* heap.Push(h, x): packetIDHeap.Push (lines 38-40), then up
pidPush(h, x) == pidUp(Append(h, x), Len(h))

\* heap.Pop(h): Swap(0, n), down(0, n), packetIDHeap.Pop
pidPop(h) ==
  LET n == Len(h) - 1
  IN packetIDHeapPop(pidDown(packetIDHeapSwap(h, 0, n), 0, n))

\* Min returns h[idx], idx
MinReturns(h, idx) == [ends |-> "return", pkt |-> At(h, idx), idx |-> idx]

\* Min, lines 55-69: the first loop, at index idx; ends is "exit" when the loop
\* is left without a return and "loop" when the next index is the one it is at
RECURSIVE MinSearch(_, _, _, _)
MinSearch(h, greaterEqual, lessEqual, idx) ==
  IF idx >= Len(h)
    THEN [ends |-> "exit", pkt |-> 0, idx |-> -1]
    ELSE LET pid == At(h, idx)
             wrapped == greaterEqual > lessEqual
             next == IF pid >= greaterEqual THEN idx * 2 ELSE idx * 2 + 1
         IN IF pid = greaterEqual
              THEN MinReturns(h, idx)
              ELSE IF next >= Len(h) /\ pid > greaterEqual /\ (wrapped \/ pid <= lessEqual)
                     THEN MinReturns(h, idx)
                     ELSE IF next = idx
                            THEN [ends |-> "loop", pkt |-> 0, idx |-> -1]
                            ELSE MinSearch(h, greaterEqual, lessEqual, next)

\* Min, lines 73-80: the loop taken when wrapped, at index idx; h[idx] past the
\* end of the slice is a run-time panic
RECURSIVE MinWrapped(_, _, _)
MinWrapped(h, lessEqual, idx) ==
  LET next == idx * 2
  IN IF next >= Len(h) /\ idx >= Len(h)
       THEN [ends |-> "panic", pkt |-> 0, idx |-> -1]
       ELSE IF next >= Len(h) /\ At(h, idx) <= lessEqual
              THEN MinReturns(h, idx)
              ELSE IF next = idx
                     THEN [ends |-> "loop", pkt |-> 0, idx |-> -1]
                     ELSE MinWrapped(h, lessEqual, next)

\* packetIDHeap.Min, lines 51-83
packetIDHeapMin(h, greaterEqual, lessEqual) ==
  LET first == MinSearch(h, greaterEqual, lessEqual, 0)
  IN IF first.ends # "exit"
       THEN first
       ELSE IF greaterEqual > lessEqual
              THEN MinWrapped(h, lessEqual, 0)
              ELSE [ends |-> "return", pkt |-> 0, idx |-> -1]

\* everything but the packetIDHeap
notPid ==
  <<sockVars, timerVars, chanVars, muxVars, rhVars, mgVars, dlVars, wrVars, clVars, envVars, ioVars, dlnVars,
    mplexVars, rloopVars, heapVars, rttVars, mtuVars, sendVars, routeVars, sidVars, taskVars>>

\* heap.Push of an id the heap does not hold yet
PidPush(x) ==
  /\ Len(pidHeap) < MaxHeapLen /\ x \notin Held(pidHeap)
  /\ pidHeap' = pidPush(pidHeap, x)
  /\ pidOp' = "Push"
  /\ UNCHANGED <<notPid, pidGE, pidLE, pidRet>>

\* heap.Pop; the id it returns is the one at index 0 before
PidPop ==
  /\ pidHeap # <<>>
  /\ pidHeap' = pidPop(pidHeap)
  /\ pidOp' = "Pop"
  /\ pidRet' = [ends |-> "return", pkt |-> pidHeap[1], idx |-> -1]
  /\ UNCHANGED <<notPid, pidGE, pidLE>>

\* a call of Min
PidMin(greaterEqual, lessEqual) ==
  /\ pidRet' = packetIDHeapMin(pidHeap, greaterEqual, lessEqual)
  /\ pidOp' = "Min" /\ pidGE' = greaterEqual /\ pidLE' = lessEqual
  /\ UNCHANGED <<notPid, pidHeap>>

\* ------------------------------------------------------------ applyRTT

\* absdiff, lines 1090-1095
absdiff(a, b) == IF a < b THEN b - a ELSE a - b

\* applyRTT, line 1100, with the estimate rounded up
NewRtt_RoundedUp(old, sample) == (old * 7 + sample + 7) \div 8

\* applyRTT, line 1100: s.rtt = (s.rtt*7 + rtt) >> 3
NewRtt(old, sample) == (old * 7 + sample) \div 8

\* applyRTT, line 1099: s.rttVar = (s.rttVar*3 + absdiff(s.rtt, rtt)) >> 2
NewRttVar(oldVar, old, sample) == (oldVar * 3 + absdiff(old, sample)) \div 4

\* everything but the round-trip estimate
notRtt ==
  <<sockVars, timerVars, chanVars, muxVars, rhVars, mgVars, dlVars, wrVars, clVars, envVars, ioVars, dlnVars,
    mplexVars, rloopVars, heapVars, pidVars, mtuVars, sendVars, routeVars, sidVars, taskVars>>

\* udtSocket.applyRTT, lines 1097-1102
applyRTT(sample) ==
  /\ rttVar' = NewRttVar(rttVar, rtt, sample)
  /\ rtt' = NewRtt(rtt, sample)
  /\ rttSample' = sample /\ rttPrev' = rtt /\ rttVarPrev' = rttVar /\ rttCalled' = TRUE
  /\ UNCHANGED notRtt

\* ---------------------------------------------------------------- Next

\* the connection-management task
ManageStep ==
  \/ ManageLinger
  \/ ManageSockClosed
  \/ ManageShutdownEvent
  \/ ManageConnTimeout
  \/ ManageConnRetry
  \/ ManageConnRetrySend
  \/ ShutdownWake
  \/ ShutdownSet
  \/ ShutdownPush

\* Handshake and life cycle of a socket, with one caller of Write.
Next ==
  \/ StartConnect
  \/ StartRendezvous
  \/ DialerWake
  \/ DialerReturn
  \/ \E from \in Addrs : ReadHandshakeSwitch(from)
  \/ \E p \in HandshakePackets : ReadHandshakeBody(p)
  \/ \E from \in Addrs : ReadShutdownPacket(from)
  \/ ManageLinger
  \/ ManageSockClosed
  \/ ManageShutdownEvent
  \/ ManageConnTimeout
  \/ ManageConnRetry
  \/ ManageConnRetrySend
  \/ ShutdownWake
  \/ ShutdownSet
  \/ ShutdownPush
  \/ WriteSwitch
  \/ WriteSend
  \/ \E ev \in EngineShutdowns : EngineShutdown(ev)

Spec == Init /\ [][Next]_vars

\* An accepted (server-side) socket and the callers of Close.
InitClose == Init /\ mode = "server"

NextClose ==
  \/ \E from \in Addrs : ReadHandshakeSwitch(from)
  \/ \E p \in HandshakePackets : ReadHandshakeBody(p)
  \/ \E from \in Addrs : ReadShutdownPacket(from)
  \/ ManageLinger
  \/ ManageShutdownEvent
  \/ ShutdownWake
  \/ ShutdownSet
  \/ ShutdownPush
  \/ CloseCheck
  \/ CloseMessageOut
  \/ CloseWait
  \/ SenderSeesClose

SpecClose == InitClose /\ [][NextClose]_vars


\* A dialled (client) socket: the dialer, the read loop and the management task.
InitDial == Init /\ mode = "client"

NextDial ==
  \/ StartConnect
  \/ DialerWake
  \/ DialerReturn
  \/ \E from \in Addrs : ReadHandshakeSwitch(from)
  \/ \E p \in HandshakePackets : ReadHandshakeBody(p)
  \/ \E from \in Addrs : ReadShutdownPacket(from)
  \/ ManageLinger
  \/ ManageSockClosed
  \/ ManageShutdownEvent
  \/ ManageConnTimeout
  \/ ManageConnRetry
  \/ ManageConnRetrySend
  \/ ShutdownWake
  \/ ShutdownSet
  \/ ShutdownPush
  \/ \E ev \in EngineShutdowns : EngineShutdown(ev)

SpecDial == InitDial /\ [][NextDial]_vars

\* a dialling socket whose peer sends handshakes only: no Shutdown packet
\* arrives and no processor asks for a shutdown
NextConnect ==
  \/ StartConnect
  \/ DialerWake
  \/ DialerReturn
  \/ \E from \in Addrs : ReadHandshakeSwitch(from)
  \/ \E p \in HandshakePackets : ReadHandshakeBody(p)
  \/ ManageLinger
  \/ ManageConnTimeout
  \/ ManageConnRetry
  \/ ManageConnRetrySend
  \/ ShutdownWake
  \/ ShutdownSet
  \/ ShutdownPush

SpecConnect == InitDial /\ [][NextConnect]_vars

\* the connection requests of one well-behaved peer
WellFormedRequests ==
  {p \in HandshakePackets : /\ p.ReqType = "HsRequest"
                            /\ p.UdtVer = ProtocolVersion
                            /\ p.SockID = 2
                            /\ p.InitPktSeq = 1}

\* An accepted socket, the receive engine and the callers of Read.
NextIO ==
  \/ ReadHandshakeSwitch("raddr")
  \/ \E p \in WellFormedRequests : ReadHandshakeBody(p)
  \/ ReadShutdownPacket("raddr")
  \/ \E ev \in EngineShutdowns : EngineShutdown(ev)
  \/ ManageLinger
  \/ ManageSockClosed
  \/ ManageShutdownEvent
  \/ ShutdownWake
  \/ ShutdownSet
  \/ ShutdownPush
  \/ \E len \in 1..MaxMsgLen : Deliver(len)
  \/ \E l \in 1..MaxBufLen : ReadBegin(l)
  \/ ReadDatagram
  \/ ReadStream

SpecIO == InitClose /\ [][NextIO]_vars

\* An accepted socket with one caller of Read, one of Write and callers of Close.
NextBlocked ==
  \/ ReadHandshakeSwitch("raddr")
  \/ \E p \in WellFormedRequests : ReadHandshakeBody(p)
  \/ ReadShutdownPacket("raddr")
  \/ ManageLinger
  \/ ManageShutdownEvent
  \/ ShutdownWake
  \/ ShutdownSet
  \/ ShutdownPush
  \/ \E l \in 1..MaxBufLen : ReadBegin(l)
  \/ ReadDatagram
  \/ ReadStream
  \/ WriteSwitch
  \/ WriteSend
  \/ CloseCheck
  \/ CloseMessageOut
  \/ CloseWait
  \/ SenderSeesClose

SpecBlocked == InitClose /\ [][NextBlocked]_vars

\* An accepted socket with one caller of Read, one of Write and one of the
\* SetDeadline functions.  The peer sends messages of MaxMsgLen bytes; Read is
\* given a buffer shorter than a message or longer than one.
NextDeadline ==
  \/ sockState = "Init" /\ ReadHandshakeSwitch("raddr")
  \/ \E p \in WellFormedRequests : ReadHandshakeBody(p)
  \/ Deliver(MaxMsgLen)
  \/ \E l \in {1, MaxBufLen} : ReadBegin(l)
  \/ ReadDatagram
  \/ ReadStream
  \/ ReadDeadline
  \/ WriteSwitch
  \/ WriteSend
  \/ WriteDeadline
  \/ \E w \in Deadlines : DeadlineFires(w)
  \/ \E q \in DeadlineCalls, dl \in DeadlineTimes : SetDeadlineBegin(q, dl)
  \/ SetDeadlineEnter
  \/ SetDeadlineDrain

SpecDeadline == InitClose /\ [][NextDeadline]_vars

\* The multiplexer of one local address and the goroutines that dial or listen
\* on it and later close what they opened.
InitMux == InitClose /\ ~isDatagram

NextMux ==
  \/ \E g \in Goroutines : MultiplexerForLoad(g)
  \/ \E g \in Goroutines : MultiplexerForIsLive(g)
  \/ \E g \in Goroutines : MultiplexerForListen(g)
  \/ \E g \in Goroutines : MultiplexerForStore(g)
  \/ \E g \in Goroutines : MuxNewSocket(g)
  \/ \E g \in Goroutines : listenUDT(g)
  \/ \E g \in Goroutines : closeSocket(g)
  \/ \E g \in Goroutines : unlistenUDT(g)
  \/ \E g \in Goroutines : CheckLiveEnter(g)
  \/ \E g \in Goroutines : CheckLiveDelete(g)
  \/ \E g \in Goroutines : CheckLiveRecheck(g)
  \/ \E g \in Goroutines : CheckLiveTeardown(g)

SpecMux == InitMux /\ [][NextMux]_vars


\* The read loop of the multiplexer, dispatching datagrams to an accepted
\* socket and to other connections, with the tasks that empty the socket's queues.
NextReadLoop ==
  \/ rlPc = "read" /\ sockState = "Init" /\ ReadHandshakeSwitch("raddr")
  \/ \E p \in WellFormedRequests : ReadHandshakeBody(p)
  \/ \E own \in BOOLEAN, kind \in PacketKinds, from \in Addrs : GoRead(own, kind, from)
  \/ ReadPacketRecvEvent
  \/ ReadPacketShutdownEvent
  \/ ReadPacketSendEvent
  \/ ReceiverTakes
  \/ SenderTakes
  \/ ManageLinger
  \/ ManageShutdownEvent
  \/ ShutdownWake
  \/ ShutdownSet
  \/ ShutdownPush

SpecReadLoop == InitMux /\ [][NextReadLoop]_vars

\* A dataPacketHeap under heap.Push and heap.Pop, searched with Find,
\* UpperBound and Remove.
NextHeap ==
  \/ \E x \in Seqs : HeapPush(x)
  \/ HeapPop
  \/ HeapMin
  \/ \E id \in Seqs : HeapFind(id)
  \/ \E k \in Seqs : HeapUpperBound(k)
  \/ \E id \in Seqs : HeapRemove(id)

SpecHeap == InitMux /\ [][NextHeap]_vars

\* An accepted datagram socket, the receive engine, the callers of Read and a
\* peer that shuts the connection down.
InitDatagram == InitClose /\ isDatagram

NextDatagram ==
  \/ sockState = "Init" /\ ReadHandshakeSwitch("raddr")
  \/ \E p \in WellFormedRequests : ReadHandshakeBody(p)
  \/ ReadShutdownPacket("raddr")
  \/ ManageLinger
  \/ ManageShutdownEvent
  \/ ShutdownWake
  \/ ShutdownSet
  \/ ShutdownPush
  \/ \E len \in 1..MaxMsgLen : Deliver(len)
  \/ \E l \in 1..MaxBufLen : ReadBegin(l)
  \/ ReadDatagram

SpecDatagram == InitDatagram /\ [][NextDatagram]_vars

\* A packetIDHeap under heap.Push and heap.Pop, queried with Min.
NextPid ==
  \/ \E x \in Seqs : PidPush(x)
  \/ PidPop
  \/ \E greaterEqual \in Seqs, lessEqual \in Seqs : PidMin(greaterEqual, lessEqual)

SpecPid == InitMux /\ [][NextPid]_vars

\* The round-trip estimate of a socket under a stream of samples.
NextRtt == \E sample \in 0..MaxRtt : applyRTT(sample)

SpecRtt == InitMux /\ [][NextRtt]_vars

\* ================================================================ claims

RefusedError == "Connection refused by remote host"
TimeoutError == "Connection timed out"

\* C1: once sockState is Closed, Refused, Corrupted or Timeout, no step of the
\* read loop or of the management task changes it.
C1_TerminalIsFinal ==
  [][(sockState \in Terminal) => (sockState' = sockState)]_vars

\* C2: a Write that finds the socket in one of the four terminal states returns
\* the error of that state and does not go on to send on messageOut.
C2_WriteFailsWhenTerminal ==
  (wrPc # "idle" /\ wrState \in Terminal) =>
    (wrPc = "done" /\ wrErr = connectionError(wrState))

\* every byte queued has been returned, in order (stream); every message queued
\* has been taken by a Read (datagram)
C3_AllDelivered ==
  IF isDatagram
    THEN msgsRead = msgsDelivered
    ELSE readLog = [i \in 1..delivered |-> i]

\* C3: a Read fails with the error of the terminal state only after everything
\* that was queued for delivery has been returned, in order.
C3_ReadDrainsBeforeError ==
  (rdPc = "done" /\ rdErr # "nil" /\ rdErr = rdConnErr) => C3_AllDelivered

\* every goroutine of the socket is blocked: the read loop is between packets,
\* the management task has no timer or event to take, the dialer cannot go on
TasksIdle ==
  /\ rhPc = "idle"
  /\ ~ENABLED (ManageStep \/ DialerWake \/ DialerReturn)

\* C4: a Connecting socket that was refused does not leave its dialer blocked:
\* once the socket's goroutines have nothing left to do, startConnect has
\* returned "connection refused".
C4_RefusedReachesDialer ==
  (sockState = "Refused" /\ mode = "client" /\ TasksIdle) =>
    (dlPc = "done" /\ dlErr = RefusedError)

\* C5: when no handshake and no Shutdown packet reached the socket, a
\* startConnect/startRendezvous that has returned returned "connection timed
\* out", and once shutdown() is through the state is Timeout.
C5_TimeoutReachesDialer ==
  (dlPc = "done" /\ hsBudget = MaxHandshakes /\ sdBudget = MaxShutdownPkts) =>
    /\ dlErr = TimeoutError
    /\ mgPc = "select" => sockState = "Timeout"

\* the handshake the claim C6 names: a Response carrying our initial sequence
\* and our socket type
C6_IsGoodResponse(p) ==
  /\ p.ReqType = "HsResponse"
  /\ p.InitPktSeq = initPktSeq
  /\ SockTypeMatches(p)

C7_Violates(p) ==
  \/ p.UdtVer # ProtocolVersion
  \/ p.ReqType = "HsResponse" /\ p.InitPktSeq # initPktSeq
  \/ ~SockTypeMatches(p)

\* C7: a socket in a non-terminal state that processes a handshake breaking a
\* protocol invariant moves to Corrupted.
C7_ViolationCorrupts ==
  [][\A p \in HandshakePackets :
       (ReadHandshakeBody(p) /\ sockState \in NonTerminal /\ C7_Violates(p)) =>
         sockState' = "Corrupted"]_vars

\* C8: udtVer is 4 in every state, and no handshake whose UdtVer is not 4 takes
\* a socket to Connected.
C8_VersionIsFour ==
  [][/\ udtVer' = ProtocolVersion
     /\ \A p \in HandshakePackets :
          (ReadHandshakeBody(p) /\ sockState # "Connected" /\ sockState' = "Connected") =>
            p.UdtVer = ProtocolVersion]_vars

\* C9: a socket started in rendezvous mode that was handed exactly one handshake,
\* the peer's compatible Rendezvous request, while still in Rendezvous, has
\* connected when startRendezvous returns: the processors were launched, the
\* socket left the rendezvous list and the call returned without error.
C9_RendezvousConnects ==
  (mode = "rendezvous" /\ dlPc = "done" /\ rvSeen
     /\ hsBudget = MaxHandshakes - 1 /\ sdBudget = MaxShutdownPkts) =>
    (launched > 0 /\ dlErr = "nil")

\* C10: whatever the number and interleaving of Close calls, messageOut is
\* closed at most once.
C10_CloseIdempotent ==
  panic # "close of closed channel: messageOut"

\* C11: once a Close() call has returned, the socket is in a terminal state:
\* the shutdown event Close waited on has also been processed by the
\* connection-management task.
C11_ClosedAfterClose ==
  clDone > 0 => sockState \in Terminal

\* shutdown() has run to its end: the state is terminal and the nil message is queued
ShutdownComplete ==
  sockState \in Terminal /\ mgPc \in {"select", "exited"}

\* the two halves of C12: the waiting Read, the Write waiting on the full queue
C12_ReadNotLeftWaiting ==
  (Running /\ ShutdownComplete /\ rdPc \in {"dgram", "stream"}) => ENABLED (ReadDatagram \/ ReadStream)

C12_WriteNotOnClosed ==
  ~(messageOut = MessageOutCap /\ panic = "send on closed channel: messageOut")

\* C12: when the connection has shut down, a Read that was waiting on the empty
\* inbound queue is not left waiting (it returns or can go on), and a Write
\* waiting on the full outbound queue does not send on the closed channel.
C12_BlockedCallsReturn ==
  C12_ReadNotLeftWaiting /\ C12_WriteNotOnClosed

\* C13: once a Read (Write) has received the value of the read (write) deadline
\* timer, and as long as no SetDeadline function is called, every step of a Read
\* (Write) on a socket that was not terminal when the call began leaves the
\* inbound (outbound) queue alone, and the call ends with the timeout error.
C13_TimeoutSticks ==
  [][/\ (observed["read"] /\ rdPc \in {"dgram", "stream"} /\ rdConnErr = "nil") =>
          /\ messageIn' = messageIn \/ Len(messageIn') > Len(messageIn)
          /\ readLog' = readLog
          /\ rdPc' = rdPc \/ (rdPc' = "done" /\ rdErr' = "ETIMEDOUT")
     /\ (observed["write"] /\ wrPc = "send") =>
          /\ messageOut' = messageOut
          /\ wrPc' = wrPc \/ (wrPc' = "done" /\ wrErr' = "ETIMEDOUT")
    ]_vars

\* after the read deadline was observed, a later Read of a socket with a queued
\* message has failed with the timeout error; likewise a later Write
C13_Witness ==
  /\ observed["read"] /\ rdPc = "done" /\ rdErr = "ETIMEDOUT" /\ rdCalls > 1 /\ messageIn # <<>>
  /\ observed["write"] /\ wrPc = "done" /\ wrErr = "ETIMEDOUT" /\ wrCalls > 1

\* C14: a SetDeadline, SetReadDeadline or SetWriteDeadline call with the zero
\* time or a time after now completes whatever the state of the timer: it is
\* never left waiting for a value from the stopped timer's channel.
C14_SetDeadlineCompletes ==
  (Running /\ sdlPc = "drain" /\ sdlDl \in {"zero", "future"}) => ENABLED SetDeadlineDrain

\* C15: a datagram Read that takes a message m from the inbound queue removes
\* exactly m, returns the first min(len(buf), len(m)) bytes of m, fails with
\* "Message truncated" exactly when len(buf) < len(m), and keeps nothing of m
\* for the next Read.
C15_DatagramRead ==
  [][(rdPc = "dgram" /\ rdPc' = "done" /\ messageIn # <<>> /\ Head(messageIn) # NilSlice
        /\ rdErr' # "ETIMEDOUT") =>
       LET m == Head(messageIn)
           k == IF rdLen < Len(m) THEN rdLen ELSE Len(m)
       IN /\ messageIn' = Tail(messageIn)
          /\ Len(rdOut') = k
          /\ \A i \in 1..k : rdOut'[i] = m[i]
          /\ (rdErr' = "Message truncated") <=> (rdLen < Len(m))
          /\ rdErr' \in {"nil", "Message truncated"}
          /\ currPartialRead' = NilSlice
    ]_vars

\* two datagram Reads have taken the two messages queued: one was truncated
\* (bytes are missing from what was returned), the last exactly filled its buffer
C15_Witness ==
  /\ isDatagram /\ rdPc = "done" /\ msgsRead = 2 /\ msgsDelivered = 2
  /\ rdErr = "nil" /\ Len(rdOut) = rdLen
  /\ Len(readLog) < delivered

\* C16: in stream mode the bytes returned by the Reads so far, in order, are a
\* prefix of the bytes of the payloads queued on messageIn, in order: no byte
\* is lost, duplicated or reordered.
C16_StreamIsPrefix ==
  ~isDatagram =>
    /\ Len(readLog) <= delivered
    /\ \A i \in 1..Len(readLog) : readLog[i] = i

\* the multiplexer has been torn down: its endpoint is closed
TornDown(m) == conn[m] = "nil"

\* the multiplexer is in use: it holds a listener, a rendezvous socket or a
\* connection, or multiplexerFor has just returned it to a caller
InUse(m) ==
  \/ listenSock[m] # 0
  \/ rvSockets[m] # {}
  \/ sockets[m] # {}
  \/ \E g \in Goroutines : goPc[g] = "have" /\ goM[g] = m

\* C17: a multiplexer that holds a listener, a rendezvous socket or a
\* connection, or that multiplexerFor has returned to a caller, is never torn
\* down, however checkLive interleaves with newSocket, listenUDT and
\* multiplexerFor.
C17_NoTeardownInUse ==
  \A m \in Multiplexers : InUse(m) => ~TornDown(m)

\* the step of the read loop inside readPacket
ReadPacketStep == ReadPacketRecvEvent \/ ReadPacketShutdownEvent \/ ReadPacketSendEvent

\* C18: the read loop never blocks on a connection: wherever it stands in
\* readPacket of a connected socket it can go on by itself, whether the queue
\* it is about to send on is full or not, and so comes back to read the next
\* datagram.
C18_ReadLoopNeverBlocks ==
  (Running /\ launched > 0 /\ rlPc # "read") => ENABLED ReadPacketStep

\* C19: Find(id) returns the packet whose Seq is id and its index when the heap
\* holds one and (nil, -1) when it holds none; Remove(id) removes exactly that
\* packet and returns true if and only if it was there.
C19_FindRemoveCorrect ==
  /\ dpOp = "Find" =>
       /\ dpRet.returns
       /\ IF dpArg \in Held(dpHeap)
            THEN dpRet.pkt = dpArg /\ dpRet.idx \in 0..(Len(dpHeap) - 1) /\ At(dpHeap, dpRet.idx) = dpArg
            ELSE dpRet.pkt = NilPacket /\ dpRet.idx = -1
  /\ dpOp = "Remove" =>
       /\ dpRet.returns
       /\ dpRet.ok = (dpArg \in Held(dpBefore))
       /\ Held(dpHeap) = Held(dpBefore) \ {dpArg}
       /\ Len(dpHeap) = Cardinality(Held(dpHeap))

\* the lowest Seq above k among the packets of the heap
LowestAbove(h, k) == CHOOSE x \in Held(h) : x > k /\ \A y \in Held(h) : y > k => x <= y

\* C20: UpperBound(k) returns the entry with the lowest Seq greater than k, and
\* its index, whenever the heap holds an entry with Seq greater than k.
C20_UpperBoundCorrect ==
  (dpOp = "UpperBound" /\ \E x \in Held(dpHeap) : x > dpArg) =>
    /\ dpRet.returns
    /\ dpRet.pkt = LowestAbove(dpHeap, dpArg)
    /\ dpRet.idx \in 0..(Len(dpHeap) - 1)
    /\ At(dpHeap, dpRet.idx) = dpRet.pkt

\* the ids of the heap within the range from greaterEqual to lessEqual, which
\* crosses the wrap boundary when greaterEqual is above lessEqual
InRange(h, greaterEqual, lessEqual) ==
  {x \in Held(h) : IF greaterEqual > lessEqual
                     THEN x >= greaterEqual \/ x <= lessEqual
                     ELSE x >= greaterEqual /\ x <= lessEqual}

\* the id of a range that comes first in protocol order, counted from greaterEqual
FirstInRange(R, greaterEqual) ==
  IF \E x \in R : x >= greaterEqual
    THEN CHOOSE x \in R : x >= greaterEqual /\ \A y \in R : y >= greaterEqual => x <= y
    ELSE CHOOSE x \in R : \A y \in R : x <= y

\* C21: Min(greaterEqual, lessEqual) returns the entry first in protocol order
\* within the range, also when the range crosses the wrap boundary, and index
\* -1 exactly when the heap holds no id in the range (stated here for a heap
\* that holds at least one id).
C21_MinInRange ==
  (pidOp = "Min" /\ pidHeap # <<>>) =>
    LET R == InRange(pidHeap, pidGE, pidLE)
    IN /\ pidRet.ends = "return"
       /\ IF R = {}
            THEN pidRet.idx = -1
            ELSE /\ pidRet.idx \in 0..(Len(pidHeap) - 1)
                 /\ pidRet.pkt = FirstInRange(R, pidGE)
                 /\ At(pidHeap, pidRet.idx) = pidRet.pkt

\* the size of the sequence space (2^31 in the protocol) and half of its range (2^30)
SeqModulus == MaxSeq + 1
HalfRange == SeqModulus \div 2

\* the half-range rule: a is before b in protocol order
Before(a, b) == ((b - a) % SeqModulus) \in 1..(HalfRange - 1)

\* C22: Less of dataPacketHeap and of packetIDHeap is the half-range rule, a
\* sorts before b iff (b - a) mod 2^31 lies in (0, 2^30), so a sorts before
\* (a + k) mod 2^31 for 0 < k < 2^30; and heap.Pop on a heap whose ids lie
\* within half the range, on both sides of the wrap boundary or not, returns
\* the id earliest in protocol order.
C22_LessIsHalfRange ==
  /\ \A i, j \in 0..(Len(dpHeap) - 1) :
       Before(At(dpHeap, i), At(dpHeap, j)) =>
         (dataPacketHeapLess(dpHeap, i, j) /\ packetIDHeapLess(dpHeap, i, j))
  /\ (dpOp = "Pop" /\ \A x, y \in Held(dpBefore) : x = y \/ Before(x, y) \/ Before(y, x)) =>
       \A x \in Held(dpBefore) \ {dpArg} : Before(dpArg, x)

\* the distance of the estimate from the sample before and after the last call
DistBefore == absdiff(rttPrev, rttSample)
DistAfter == absdiff(rtt, rttSample)

\* C23 as stated: each call of applyRTT(r) shrinks the distance |rtt - r| by
\* the factor 7/8, so that repeated calls reach rtt = r.
C23_Original ==
  rttCalled => 8 * DistAfter <= 7 * DistBefore

\* C23, amended: a call of applyRTT(r) shrinks the distance |rtt - r| by the
\* factor 7/8 up to the rounding of the shift, never moves rtt across r, and
\* leaves rtt where it was only when it is r or at most 7 below r; rttVar
\* shrinks towards that distance by the factor 3/4 and stays where it was only
\* when it is not above the distance.
C23_ConvergesUpToRounding ==
  rttCalled =>
    /\ 8 * DistAfter <= 7 * DistBefore + 7
    /\ DistAfter <= DistBefore
    /\ rttPrev >= rttSample => (rtt >= rttSample /\ 8 * DistAfter <= 7 * DistBefore)
    /\ rttPrev <= rttSample => rtt <= rttSample
    /\ rtt = rttPrev => (rtt <= rttSample /\ rttSample - rtt <= 7)
    /\ 4 * rttVar <= 3 * rttVarPrev + DistBefore
    /\ rttVar = rttVarPrev => rttVar <= DistBefore

\* a call with the sample of the call before it has left rtt below the
\* sample, where it was, and rttVar above 0, where it was
C23_Witness ==
  /\ rttCalled
  /\ rtt = rttPrev /\ rtt < rttSample
  /\ rttVar = rttVarPrev /\ rttVar > 0

\* ------------------------------------------------------------- MTU (C24)

\* sockets of every mode, on multiplexers of every MTU, with every configured
\* maximum packet size
InitMtu == \E mMtu \in 1..MaxMtu, maxPacketSize \in PktSizes : InitConfig(mMtu, maxPacketSize)

\* handshakes of one peer socket of the protocol's version, carrying every
\* maximum packet size
MtuPackets ==
  {p \in HandshakePacketsWith(PktSizes, {0}) :
     p.UdtVer = ProtocolVersion /\ p.SockID = 2 /\ p.SockType = "STREAM"}

NextMtu ==
  \/ StartConnect
  \/ StartRendezvous
  \/ DialerWake
  \/ DialerReturn
  \/ \E from \in Addrs : ReadHandshakeSwitch(from)
  \/ \E p \in MtuPackets : ReadHandshakeBody(p)
  \/ ManageLinger
  \/ ManageConnTimeout
  \/ ManageConnRetry
  \/ ManageConnRetrySend
  \/ ShutdownWake
  \/ ShutdownSet
  \/ ShutdownPush

SpecMtu == InitMtu /\ [][NextMtu]_vars

\* min(multiplexer MTU, configured max_packet_size when set)
StartMtu == IF cfgMaxPacketSize > 0 THEN Min(muxMtu, cfgMaxPacketSize) ELSE muxMtu

\* C24: the MTU of a socket that has received no handshake is min(multiplexer
\* MTU, configured maximum packet size when set); no step increases it; a
\* handshake that takes the socket to Connected leaves it at min(previous
\* MTU, the peer's MaxPktSize); a handshake received in Connected or in a
\* terminal state leaves it unchanged.
C24_MtuNegotiated ==
  [][/\ (hsBudget = MaxHandshakes) => (mtu = StartMtu)
     /\ mtu' <= mtu
     /\ (rhPc = "body" /\ rhPc' = "idle" /\ sockState # "Connected" /\ sockState' = "Connected") =>
          \A p \in MtuPackets :
            (mtu' # Min(mtu, p.MaxPktSize)) => ~ReadHandshakeBody(p)
     /\ (rhPc = "body" /\ rhPc' = "idle" /\ rhCase = "Connected") => (mtu' = mtu)
     /\ (hsBudget' # hsBudget /\ sockState \in Terminal \cup {"Connected"}) =>
          (mtu' = mtu /\ (sockState \in Terminal => rhPc' = "idle"))
    ]_vars

\* a connected socket whose MTU a handshake has lowered below its start value,
\* and that received a second handshake afterwards
C24_Witness ==
  /\ sockState = "Connected" /\ mtu < StartMtu /\ mtu > 0
  /\ hsBudget = 0 /\ rhPc = "idle"

\* ----------------------------------------------------- retry timer (C26)

\* a dialling or rendezvous socket whose peer sends handshakes
InitRetry == Init /\ mode \in {"client", "rendezvous"}

NextRetry ==
  \/ StartConnect
  \/ StartRendezvous
  \/ DialerWake
  \/ DialerReturn
  \/ \E from \in Addrs : ReadHandshakeSwitch(from)
  \/ \E p \in HandshakePackets : ReadHandshakeBody(p)
  \/ ManageLinger
  \/ ManageConnTimeout
  \/ ManageConnRetry
  \/ ManageConnRetrySend
  \/ ShutdownWake
  \/ ShutdownSet
  \/ ShutdownPush

SpecRetry == InitRetry /\ [][NextRetry]_vars

\* C26: a firing of the retry timer, completed while the socket is in
\* Connecting (Rendezvous), sends one handshake of type Request (Rendezvous)
\* and arms the timer again; completed in any other state it sends nothing and
\* leaves the timer disarmed.
C26_RetryOnlyWhileConnecting ==
  [][(mgPc = "retry" /\ mgPc' = "select") =>
       IF sockState \in {"Connecting", "Rendezvous"}
         THEN /\ sent' = (sent + 1) % SentModulus
              /\ lastSent'.ReqType = (IF sockState = "Connecting" THEN "HsRequest" ELSE "HsRendezvous")
              /\ connRetry' = "armed"
         ELSE /\ sent' = sent /\ lastSent' = lastSent
              /\ connRetry' = "nil"
    ]_vars

\* ------------------------------------------- handshake answers (C27, C28)

\* handshakes of the protocol's version for stream sockets, with and without
\* a cookie
CookiePackets ==
  {p \in HandshakePacketsWith({MaxMtu}, SynCookies) :
     p.UdtVer = ProtocolVersion /\ p.SockType = "STREAM"}

NextHandshake ==
  \/ StartConnect
  \/ StartRendezvous
  \/ DialerWake
  \/ DialerReturn
  \/ \E from \in Addrs : ReadHandshakeSwitch(from)
  \/ \E p \in CookiePackets : ReadHandshakeBody(p)
  \/ ManageLinger
  \/ ManageConnTimeout
  \/ ManageConnRetry
  \/ ManageConnRetrySend
  \/ ShutdownWake
  \/ ShutdownSet
  \/ ShutdownPush

SpecHandshake == Init /\ [][NextHandshake]_vars

\* the step is the end of readHandshake
IsReadHandshakeBody == rhPc = "body" /\ rhPc' = "idle"

\* exactly one handshake of the type is sent, with the cookie, to farSockID
SendsOne(reqType, synCookie) ==
  /\ sent' = (sent + 1) % SentModulus
  /\ lastSent'.ReqType = reqType
  /\ lastSent'.SynCookie = synCookie
  /\ lastSent'.dest = farSockID'

\* C27: a handshake received while the socket is Connected leaves sockState,
\* farSockID, the initial sequence and the MTU unchanged; a server socket
\* answers a Request with exactly one Response, a non-server socket answers a
\* Response with exactly one Response2, every other combination sends nothing.
C27_ConnectedHandshake ==
  [][(IsReadHandshakeBody /\ rhCase = "Connected") =>
       /\ sockState' = sockState /\ farSockID' = farSockID
       /\ initPktSeq' = initPktSeq /\ mtu' = mtu
       /\ \A p \in CookiePackets :
            ReadHandshakeBody(p) =>
              IF mode = "server" /\ p.ReqType = "HsRequest"
                THEN SendsOne("HsResponse", p.SynCookie)
                ELSE IF mode # "server" /\ p.ReqType = "HsResponse"
                       THEN SendsOne("HsResponse2", p.SynCookie)
                       ELSE sent' = sent /\ lastSent' = lastSent
    ]_vars

\* a connected dialling socket has answered a repeated Response that carried
\* a cookie
C27_Witness ==
  /\ mode = "client" /\ sockState = "Connected" /\ rhPc = "idle"
  /\ lastSent.ReqType = "HsResponse2" /\ lastSent.SynCookie = 9

\* C28: a server socket in Init that receives a handshake request becomes
\* Connected, records the client's SockID as farSockID and sends exactly one
\* Response that carries the server's socket id, the client's initial
\* sequence and SYN cookie, and is addressed to the client's socket id.
C28_ServerAccepts ==
  [][(IsReadHandshakeBody /\ rhCase = "Init" /\ mode = "server") =>
       \A p \in CookiePackets :
         (ReadHandshakeBody(p) /\ p.ReqType = "HsRequest") =>
           /\ sockState' = "Connected"
           /\ farSockID' = p.SockID
           /\ SendsOne("HsResponse", p.SynCookie)
           /\ lastSent'.SockID = OwnSockID
           /\ lastSent'.InitPktSeq = p.InitPktSeq
           /\ lastSent'.dest = p.SockID
    ]_vars

\* the server has accepted the request of client socket 3 that carried a
\* cookie, and has sent nothing else
C28_Witness ==
  /\ mode = "server" /\ sockState = "Connected" /\ farSockID = 3
  /\ sent = 1 /\ lastSent.ReqType = "HsResponse"
  /\ lastSent.SynCookie = 9 /\ lastSent.dest = 3 /\ lastSent.InitPktSeq = 2

\* ------------------------------------- removal of closed sockets (C25, C29)

\* handshakes of one peer socket of the protocol's version
LifePackets ==
  {p \in HandshakePackets :
     p.UdtVer = ProtocolVersion /\ p.SockType = "STREAM" /\ p.SockID = 2}

\* readHandshake, from its switch to its return
ReadHandshakeEnds == \E p \in LifePackets : ReadHandshakeBody(p)

\* the peer sends handshakes at any time and Shutdown packets to an open
\* socket; the processors ask for shutdowns
NextLife ==
  \/ StartConnect
  \/ StartRendezvous
  \/ DialerWake
  \/ DialerReturn
  \/ \E from \in Addrs : ReadHandshakeSwitch(from)
  \/ ReadHandshakeEnds
  \/ sockState \in NonTerminal /\ \E from \in Addrs : ReadShutdownPacket(from)
  \/ ManageLinger
  \/ ManageSockClosed
  \/ ManageShutdownEvent
  \/ ManageConnTimeout
  \/ ManageConnRetry
  \/ ManageConnRetrySend
  \/ ShutdownWake
  \/ ShutdownSet
  \/ ShutdownPush
  \/ \E ev \in EngineShutdowns : EngineShutdown(ev)

\* every goroutine that can take a step takes one, every armed timer fires
\* and the select of goManageConnection takes every case that stays ready
FairLife ==
  /\ WF_vars(ReadHandshakeEnds)
  /\ WF_vars(DialerWake) /\ WF_vars(DialerReturn)
  /\ SF_vars(ManageLinger)
  /\ SF_vars(ManageSockClosed)
  /\ SF_vars(ManageShutdownEvent)
  /\ SF_vars(ManageConnTimeout)
  /\ SF_vars(ManageConnRetry)
  /\ WF_vars(ManageConnRetrySend)
  /\ WF_vars(ShutdownWake) /\ WF_vars(ShutdownSet) /\ WF_vars(ShutdownPush)

SpecLife == Init /\ [][NextLife]_vars /\ FairLife

\* the socket is no longer in m.sockets and goManageConnection has returned
Removed == ~registered /\ mgPc = "exited"

\* C25: a socket that has entered a terminal state is eventually removed from
\* the multiplexer's connection map and its management task terminates.
C25_TerminalIsRemoved == (sockState \in Terminal) ~> Removed

\* readPacket has queued the shutdownMessage of a Shutdown packet
ShutdownPacketQueued ==
  \E i \in 1..Len(shutdownEvent) :
    shutdownEvent[i] = [sockState |-> "Closed", permitLinger |-> TRUE]

\* C29: a Shutdown packet received from the peer address by a socket in a
\* non-terminal state eventually moves the socket to Closed with the linger
\* timer armed, and the socket is removed when the timer has expired.
C29_ShutdownPacketCloses ==
  ShutdownPacketQueued ~> (sockState = "Closed" /\ lingerTimer = "spent" /\ Removed)

\* ---------------------------------------------- read loop routing (C30)

\* everything but the routing state
notRoute ==
  <<sockVars, timerVars, chanVars, muxVars, rhVars, mgVars, dlVars, wrVars, clVars, envVars, ioVars,
    dlnVars, mplexVars, rloopVars, heapVars, pidVars, rttVars, mtuVars, sendVars, sidVars, taskVars>>

\* multiplexer.newSocket, lines 196-206: m.sockets.Store(sid, s)
RouteNewSocket(id) ==
  /\ id \notin rtSockets
  /\ rtSockets' = rtSockets \cup {id}
  /\ UNCHANGED <<notRoute, rtRv, rtListen, rtMutex, rtPc, rtPkt, rtReached, rtBudget>>

\* multiplexer.closeSocket, lines 208-212: m.sockets.Delete(sockID)
RouteCloseSocket(id) ==
  /\ id \in rtSockets
  /\ rtSockets' = rtSockets \ {id}
  /\ UNCHANGED <<notRoute, rtRv, rtListen, rtMutex, rtPc, rtPkt, rtReached, rtBudget>>

\* multiplexer.listenUDT, lines 124-132, which needs servSockMutex
RouteListen ==
  /\ ~rtMutex /\ ~rtListen
  /\ rtListen' = TRUE
  /\ UNCHANGED <<notRoute, rtSockets, rtRv, rtMutex, rtPc, rtPkt, rtReached, rtBudget>>

\* multiplexer.unlistenUDT, lines 134-141, which needs servSockMutex
RouteUnlisten ==
  /\ ~rtMutex /\ rtListen
  /\ rtListen' = FALSE
  /\ UNCHANGED <<notRoute, rtSockets, rtRv, rtMutex, rtPc, rtPkt, rtReached, rtBudget>>

\* m.startRendezvous(s), called at line 856: the socket joins m.rvSockets
\* under servSockMutex
RouteStartRendezvous(raddr) ==
  /\ ~rtMutex /\ Len(rtRv) < MaxRv
  /\ rtRv' = Append(rtRv, raddr)
  /\ UNCHANGED <<notRoute, rtSockets, rtListen, rtMutex, rtPc, rtPkt, rtReached, rtBudget>>

\* udtSocket.readHandshake of a rendezvous socket returns true: lines 934-937
RvAccepts(raddr, from) == raddr = from

\* the rendezvous sockets the loop of lines 299-304 calls, in order: up to
\* and including the first that returns true
RvOffered(from) ==
  LET hits == {i \in 1..Len(rtRv) : RvAccepts(rtRv[i], from)}
      last == IF hits = {} THEN Len(rtRv) ELSE CHOOSE i \in hits : \A j \in hits : i <= j
  IN [i \in 1..last |-> [kind |-> "rv", id |-> i]]

\* lines 315-317: m.sockets.Load(sockID) and readPacket
RouteLookup(dest) ==
  IF dest \in rtSockets THEN <<[kind |-> "socket", id |-> dest]>> ELSE <<>>

\* one turn of the loop of goRead, lines 286-318, for a packet that decoded
GoReadRoute(pkt) ==
  /\ rtPc = "read" /\ rtBudget > 0
  /\ rtBudget' = rtBudget - 1
  /\ rtPkt' = pkt
  /\ IF pkt.dest # 0
       THEN /\ rtReached' = RouteLookup(pkt.dest)
            /\ UNCHANGED <<rtMutex, rtPc>>
       ELSE IF ~pkt.hs
         THEN /\ rtReached' = <<>>
              /\ UNCHANGED <<rtMutex, rtPc>>
         ELSE IF rtMutex
           THEN /\ rtPc' = "Lock"
                /\ rtReached' = <<>>
                /\ UNCHANGED rtMutex
           ELSE IF \E i \in 1..Len(rtRv) : RvAccepts(rtRv[i], pkt.from)
             THEN /\ rtReached' = RvOffered(pkt.from)
                  /\ UNCHANGED <<rtMutex, rtPc>>
             ELSE IF rtListen
               THEN /\ rtReached' = RvOffered(pkt.from) \o <<[kind |-> "listener", id |-> 0]>> \o RouteLookup(0)
                    /\ UNCHANGED <<rtMutex, rtPc>>
               ELSE /\ rtReached' = RvOffered(pkt.from) \o RouteLookup(0)
                    /\ rtMutex' = TRUE
                    /\ UNCHANGED rtPc
  /\ UNCHANGED <<notRoute, rtSockets, rtRv, rtListen>>

NextRoute ==
  \/ \E id \in SockIds : RouteNewSocket(id)
  \/ \E id \in SockIds : RouteCloseSocket(id)
  \/ RouteListen
  \/ RouteUnlisten
  \/ \E raddr \in Addrs : RouteStartRendezvous(raddr)
  \/ \E pkt \in RoutedPackets : GoReadRoute(pkt)

SpecRoute == InitMux /\ [][NextRoute]_vars

\* the receivers of kind k among those the packet was passed to
ReachedOf(k) == {i \in 1..Len(rtReached') : rtReached'[i].kind = k}

\* C30: a packet with destination id 0 that is not a Handshake reaches no
\* socket and no listener; a Handshake with destination id 0 is offered to
\* the rendezvous sockets in their order, before anything else, up to the
\* first that accepts it, and reaches the listener only if none accepted it;
\* a packet with a non-zero destination id reaches the socket registered
\* under that id and nothing else, and nothing when no socket is.
C30_Routing ==
  [][(rtBudget' # rtBudget) =>
       /\ (rtPkt'.dest = 0 /\ ~rtPkt'.hs) => (rtReached' = <<>>)
       /\ (rtPkt'.dest = 0 /\ rtPkt'.hs) =>
            /\ Len(rtReached') >= Len(RvOffered(rtPkt'.from))
            /\ SubSeq(rtReached', 1, Len(RvOffered(rtPkt'.from))) = RvOffered(rtPkt'.from)
            /\ ReachedOf("rv") = 1..Len(RvOffered(rtPkt'.from))
            /\ ReachedOf("listener") # {} =>
                 ~\E i \in 1..Len(rtRv) : RvAccepts(rtRv[i], rtPkt'.from)
       /\ (rtPkt'.dest # 0) =>
            rtReached' = RouteLookup(rtPkt'.dest)
    ]_vars

\* ------------------------------------------------- launchProcessors (C31)

\* C31: a socket in Connected has launched its processors; launchProcessors
\* is called only in the step that takes the socket to Connected, and never
\* a second time, whatever handshakes arrive.
C31_LaunchedOnce ==
  [][/\ (sockState = "Connected") => (launched = 1)
     /\ (sockState' = "Connected") => (launched' = 1)
     /\ launched' <= 1
     /\ (launched' # launched) => (launched = 0 /\ sockState # "Connected" /\ sockState' = "Connected")
    ]_vars

\* a connected socket that received a further handshake after the one that
\* connected it
C31_Witness ==
  /\ sockState = "Connected" /\ launched = 1
  /\ hsBudget = 0 /\ rhPc = "idle" /\ sent > 1

\* ------------------------------------------- termination of searches (C32)

\* C32: every call of dataPacketHeap.Min, Find, UpperBound and Remove returns,
\* on every heap and for every argument, and none indexes outside the slice.
C32_SearchTerminates ==
  (dpOp \in {"Min", "Find", "UpperBound", "Remove"}) =>
    (dpRet.returns /\ panic = "none")

\* --------------------------------------------------- servSockMutex (C33)

\* C33: between two turns of the read loop servSockMutex is not held, so the
\* next turn (and isLive, listenUDT, unlistenUDT) acquires it: the loop is at
\* conn.ReadFrom, never waiting in Lock.
C33_MutexReleased == ~rtMutex /\ rtPc = "read"

\* ----------------------------------------------- teardown, once (C34)

\* C34: a multiplexer is torn down at most once: no goroutine is about to run
\* lines 234-240 on a multiplexer whose endpoint is already nil, and none has
\* done so.
C34_TornDownOnce ==
  /\ \A g \in Goroutines : (goPc[g] = "teardown") => (conn[goM[g]] # "nil")
  /\ panic = "none"


\* ------------------------------------- the tasks of a multiplexer (C35)

\* everything but the task state and the socket id counter
notTask ==
  <<sockVars, timerVars, chanVars, muxVars, rhVars, mgVars, dlVars, wrVars, clVars, ioVars, dlnVars,
    senderDone, hsBudget, sdBudget, procBudget, rvSeen,
    mplexVars, rloopVars, heapVars, pidVars, rttVars, mtuVars, sendVars, routeVars>>

\* newMultiplexer, lines 96-118: the endpoint, nextSid: randUint32(), the two
\* channels, and the three tasks started with go
newMultiplexer(r) ==
  /\ tkConn = "none"
  /\ tkConn' = "open" /\ tkPktOut' = "open" /\ tkShutdown' = "open"
  /\ tkPc' = [t \in Tasks |-> "start"]
  /\ nextSid' = r
  /\ UNCHANGED <<notTask, panic, tkQueued, tkTeardown, tkChan, tkUsed, sidPc, sidOf, sidSockets>>

\* checkLive, lines 234-240, one statement at a time: m.conn.Close(),
\* m.conn = nil, close(m.pktOut), m.pktOut = nil, close(m.shutdown),
\* m.shutdown = nil
TeardownStep ==
  /\ panic = "none"
  /\ tkConn # "none"
  /\ tkTeardown < 6
  /\ tkTeardown' = tkTeardown + 1
  /\ tkConn' = CASE tkTeardown = 0 -> "closed" [] tkTeardown = 1 -> "nil" [] OTHER -> tkConn
  /\ tkPktOut' = CASE tkTeardown = 2 -> "closed" [] tkTeardown = 3 -> "nil" [] OTHER -> tkPktOut
  /\ tkShutdown' = CASE tkTeardown = 4 -> "closed" [] tkTeardown = 5 -> "nil" [] OTHER -> tkShutdown
  /\ UNCHANGED <<notTask, sidVars, panic, tkQueued, tkPc, tkChan, tkUsed>>

\* goWrite line 327, pktOut := m.pktOut, and goReceiveTick line 359,
\* shutdown := m.shutdown; goRead captures nothing
TaskStart(t) ==
  /\ panic = "none"
  /\ tkPc[t] = "start"
  /\ tkPc' = [tkPc EXCEPT ![t] = "loop"]
  /\ tkChan' = [tkChan EXCEPT ![t] =
       CASE t = "goWrite" -> IF tkPktOut = "nil" THEN "nil" ELSE "chan"
         [] t = "goReceiveTick" -> IF tkShutdown = "nil" THEN "nil" ELSE "chan"
         [] OTHER -> "none"]
  /\ UNCHANGED <<notTask, sidVars, panic, tkConn, tkPktOut, tkQueued, tkShutdown, tkTeardown, tkUsed>>

\* goRead, lines 274-278: m.conn.ReadFrom(buf) once the endpoint is closed or
\* nil; an error is logged and the loop continues, there is no return
goReadTask ==
  /\ panic = "none"
  /\ tkPc["goRead"] = "loop"
  /\ tkConn \in {"closed", "nil"}
  /\ IF tkConn = "nil"
       THEN panic' = "nil pointer dereference: m.conn.ReadFrom" /\ UNCHANGED tkUsed
       ELSE tkUsed' = tkUsed \cup {"goRead: ReadFrom on the closed endpoint"} /\ UNCHANGED panic
  /\ UNCHANGED <<notTask, sidVars, tkConn, tkPktOut, tkQueued, tkShutdown, tkTeardown, tkPc, tkChan>>

\* goWrite, lines 329-333: receive from the captured channel; a closed
\* channel hands out what is buffered first, then !ok and return; a nil
\* channel never delivers
goWriteReceive ==
  /\ panic = "none"
  /\ tkPc["goWrite"] = "loop"
  /\ tkChan["goWrite"] = "chan"
  /\ IF tkQueued > 0
       THEN tkQueued' = tkQueued - 1 /\ tkPc' = [tkPc EXCEPT !["goWrite"] = "WriteTo"]
       ELSE /\ tkPktOut # "open"
            /\ tkPc' = [tkPc EXCEPT !["goWrite"] = "returned"]
            /\ UNCHANGED tkQueued
  /\ UNCHANGED <<notTask, sidVars, panic, tkConn, tkPktOut, tkShutdown, tkTeardown, tkChan, tkUsed>>

\* goWrite, lines 341-344: m.conn.WriteTo; an error ends the process in
\* log.Fatalf
goWriteTo ==
  /\ panic = "none"
  /\ tkPc["goWrite"] = "WriteTo"
  /\ CASE tkConn = "open" ->
            /\ tkPc' = [tkPc EXCEPT !["goWrite"] = "loop"]
            /\ UNCHANGED <<panic, tkUsed>>
       [] tkConn = "closed" ->
            /\ tkUsed' = tkUsed \cup {"goWrite: WriteTo on the closed endpoint"}
            /\ panic' = "log.Fatalf: Unable to write out"
            /\ UNCHANGED tkPc
       [] OTHER ->
            /\ panic' = "nil pointer dereference: m.conn.WriteTo"
            /\ UNCHANGED <<tkPc, tkUsed>>
  /\ UNCHANGED <<notTask, sidVars, tkConn, tkPktOut, tkQueued, tkShutdown, tkTeardown, tkChan>>

\* goReceiveTick, lines 361-364: the captured shutdown channel is closed
goReceiveTickShutdown ==
  /\ panic = "none"
  /\ tkPc["goReceiveTick"] = "loop"
  /\ tkChan["goReceiveTick"] = "chan"
  /\ tkShutdown # "open"
  /\ tkPc' = [tkPc EXCEPT !["goReceiveTick"] = "returned"]
  /\ UNCHANGED <<notTask, sidVars, panic, tkConn, tkPktOut, tkQueued, tkShutdown, tkTeardown, tkChan, tkUsed>>

\* sendPacket, lines 350-354, called by a socket: m.pktOut <- packetWrapper.
\* A send on a full queue waits (no step), a send on a closed channel
\* panics, a send on a nil channel never returns.
sendPacket ==
  /\ panic = "none"
  /\ tkConn # "none"
  /\ CASE tkPktOut = "open" ->
            /\ tkQueued < PktOutCap
            /\ tkQueued' = tkQueued + 1
            /\ UNCHANGED <<panic, tkUsed>>
       [] tkPktOut = "closed" ->
            /\ panic' = "send on closed channel: pktOut"
            /\ UNCHANGED <<tkQueued, tkUsed>>
       [] OTHER ->
            /\ tkUsed' = tkUsed \cup {"sendPacket: send on the nil queue"}
            /\ UNCHANGED <<panic, tkQueued>>
  /\ UNCHANGED <<notTask, sidVars, tkConn, tkPktOut, tkShutdown, tkTeardown, tkPc, tkChan>>

NextTasks ==
  \/ \E r \in Sids : newMultiplexer(r)
  \/ TeardownStep
  \/ \E t \in Tasks : TaskStart(t)
  \/ goReadTask
  \/ goWriteReceive
  \/ goWriteTo
  \/ goReceiveTickShutdown
  \/ sendPacket

SpecTasks == InitMux /\ [][NextTasks]_vars

\* the teardown of lines 234-240 has run to its end
TornDownAll == tkTeardown = 6

\* C35: once the multiplexer is torn down no task and no sendPacket uses the
\* closed endpoint or the closed or nil queue, nothing panics, and each task
\* that is still in its loop has a way to return.
C35_TasksStop ==
  /\ panic = "none"
  /\ tkUsed = {}
  /\ TornDownAll => \A t \in Tasks : tkPc[t] = "returned" \/ (tkPc[t] = "loop" /\ tkChan[t] = "chan")


\* ------------------------------------------------ socket ids (C36)

\* multiplexer.newSocket, line 197: sid := atomic.AddUint32(&m.nextSid, ^uint32(0)),
\* and newSocket(m, sid, ...), which keeps it as s.sockID
NewSocketAdd(g) ==
  /\ tkConn # "none"
  /\ sidPc[g] = "idle"
  /\ nextSid' = (nextSid + (SidModulus - 1)) % SidModulus
  /\ sidOf' = [sidOf EXCEPT ![g] = nextSid']
  /\ sidPc' = [sidPc EXCEPT ![g] = "Store"]
  /\ UNCHANGED <<notTask, taskVars, panic, sidSockets>>

\* multiplexer.newSocket, line 204: m.sockets.Store(sid, s)
NewSocketStore(g) ==
  /\ sidPc[g] = "Store"
  /\ sidSockets' = [sidSockets EXCEPT ![sidOf[g]] = g]
  /\ sidPc' = [sidPc EXCEPT ![g] = "open"]
  /\ UNCHANGED <<notTask, taskVars, panic, nextSid, sidOf>>

\* multiplexer.closeSocket, lines 208-213, called with s.sockID: Load, Delete
CloseSocketSid(g) ==
  /\ sidPc[g] = "open"
  /\ sidSockets' = [sidSockets EXCEPT ![sidOf[g]] = 0]
  /\ sidOf' = [sidOf EXCEPT ![g] = NoSid]
  /\ sidPc' = [sidPc EXCEPT ![g] = "idle"]
  /\ UNCHANGED <<notTask, taskVars, panic, nextSid>>

NextSid ==
  \/ \E r \in Sids : newMultiplexer(r)
  \/ \E g \in Goroutines : NewSocketAdd(g)
  \/ \E g \in Goroutines : NewSocketStore(g)
  \/ \E g \in Goroutines : CloseSocketSid(g)

SpecSid == InitMux /\ [][NextSid]_vars

\* C36: the sockets registered at the same time have pairwise distinct ids,
\* each is the one stored under its id, and no id is 0.
C36_SidsDistinct ==
  \A g \in Goroutines :
    (sidPc[g] = "open") =>
      /\ sidOf[g] # 0
      /\ sidSockets[sidOf[g]] = g
      /\ \A h \in Goroutines : (h # g /\ sidPc[h] = "open") => sidOf[h] # sidOf[g]

====
